---- MODULE Spec2Model ----
(***************************************************************************)
(* Secure envelope subsystem of the 2c2p client (package api2c2p).         *)
(*                                                                         *)
(* Wire strings are sequences of character codes, byte strings sequences   *)
(* of byte values 0..255; a string converted to []byte keeps its codes.    *)
(* The cryptographic primitives are idealised in the usual way: a          *)
(* signature, a wrapped key and an authentication tag are opaque values    *)
(* that never repeat, and the tables sigs, oaep and gcm record which       *)
(* values the primitives have produced (nothing else verifies or opens).   *)
(* crypto/rand is idealised the same way: every draw is a new value.       *)
(***************************************************************************)
EXTENDS Integers, Sequences, FiniteSets, TLC

\* ---------------------------------------------------------------- bounds
NKeys == 2
MaxFresh == 15
MaxPlainLen == 1
MaxRawLen == 2
MaxRecipients == 2
MaxEdits == 2
MaxBlocks == 3

\* ------------------------------------------------------- character codes
\* 0..63 are the 64 characters of the base64url alphabet, by index.
CH_DOT == 64
CH_WS == 65
CH_LBRACE == 66
CH_RBRACE == 67
CH_COMMA == 68
CH_QUOTE == 69
CH_COLON == 70
CH_LT == 71
CH_OTHER == 72
CH_PAD == 73
MaxChar == CH_PAD

\* JSON header members, one byte per member value
ALG_ABSENT == 100
ALG_PS256 == 101
ALG_RS256 == 102
ALG_HS256 == 103
ALG_NONE == 104
ALG_RSA_OAEP == 111
ALG_RSA1_5 == 112
ENC_ABSENT == 120
ENC_A256GCM == 121
ENC_A128GCM == 122
ENC_DES_CBC == 123
TYP_ABSENT == 130
TYP_JWT == 131
TYP_JWE == 132
KID_ABSENT == 140
KID_DIST == 141
P7_ENVELOPED == 150
P7_SIGNED == 151
DESBlockSize == 8

SigAlgs == {ALG_PS256, ALG_RS256, ALG_HS256, ALG_NONE}
KeyAlgs == {ALG_RSA_OAEP, ALG_RSA1_5}
EncAlgs == {ENC_A256GCM, ENC_A128GCM}

Keys == 1..NKeys

NIL == <<-1>>

\* -------------------------------------------------------------- results
Ok(v) == [ok |-> TRUE, v |-> v]
Fail == [ok |-> FALSE, v |-> NIL]
\* a failure that carries the text of its error value
FailWith(why) == [ok |-> FALSE, v |-> NIL, why |-> why]

\* ------------------------------------------------------------ base64url
\* jwt.Token.EncodeSegment and go-jose's compact serialisation:
\* base64.RawURLEncoding.EncodeToString (no padding).
RECURSIVE B64Enc(_)
B64Enc(b) ==
  IF Len(b) = 0 THEN <<>>
  ELSE IF Len(b) = 1 THEN << b[1] \div 4, (b[1] % 4) * 16 >>
  ELSE IF Len(b) = 2
    THEN << b[1] \div 4, (b[1] % 4) * 16 + (b[2] \div 16), (b[2] % 16) * 4 >>
  ELSE << b[1] \div 4, (b[1] % 4) * 16 + (b[2] \div 16),
          (b[2] % 16) * 4 + (b[3] \div 64), b[3] % 64 >>
       \o B64Enc(SubSeq(b, 4, Len(b)))

\* the bytes of a string of valid characters whose length is not 1 mod 4;
\* the bits of the last character that do not belong to a byte are dropped
\* (Go decodes non-strictly unless Strict() is asked for)
RECURSIVE B64Bytes(_)
B64Bytes(s) ==
  IF Len(s) = 0 THEN <<>>
  ELSE IF Len(s) = 2 THEN << s[1] * 4 + (s[2] \div 16) >>
  ELSE IF Len(s) = 3
    THEN << s[1] * 4 + (s[2] \div 16), (s[2] % 16) * 16 + (s[3] \div 4) >>
  ELSE << s[1] * 4 + (s[2] \div 16), (s[2] % 16) * 16 + (s[3] \div 4),
          (s[3] % 4) * 64 + s[4] >>
       \o B64Bytes(SubSeq(s, 5, Len(s)))

\* base64.RawURLEncoding.DecodeString
B64Dec(s) ==
  IF (\E i \in 1..Len(s) : s[i] > 63) \/ Len(s) % 4 = 1
    THEN Fail
    ELSE Ok(B64Bytes(s))

\* ------------------------------------------------------ string helpers
\* strings.Split(s, sep)
RECURSIVE SplitOn(_, _)
SplitOn(s, sep) ==
  IF \A i \in 1..Len(s) : s[i] # sep THEN << s >>
  ELSE LET i == CHOOSE j \in 1..Len(s) :
                  s[j] = sep /\ \A k \in 1..(j - 1) : s[k] # sep
       IN << SubSeq(s, 1, i - 1) >> \o SplitOn(SubSeq(s, i + 1, Len(s)), sep)

\* a[1] + sep + a[2] + ... (strings.Join)
RECURSIVE JoinWith(_, _)
JoinWith(a, sep) ==
  IF Len(a) = 0 THEN <<>>
  ELSE IF Len(a) = 1 THEN a[1]
  ELSE a[1] \o << sep >> \o JoinWith(Tail(a), sep)

\* go-jose stripWhitespace
StripWhitespace(s) == SelectSeq(s, LAMBDA c : c # CH_WS)


\* ---------------------------------------------------------------- state
VARIABLES
  privKey,      \* Client.PrivateKey: the key pair the client owns
  jwtCert,      \* Client.ServerJWTPublicCert: key pair named by that certificate
  fresh,        \* number of opaque values handed out so far
  sigs,         \* signatures made: [alg, key, msg, sig]
  wraps,        \* content keys wrapped: [alg, pub, cek, ek]
  seals,        \* contents sealed: [enc, cek, iv, aad, ct, tag, pt]
  envLog,       \* every Envelope produced by an encrypt call, in call order
  wire,         \* the message in flight, read once by the handler it reaches
  res,          \* outcome of the last inbound call
  files,        \* the PEM files the configuration names, as they are on disk
  client,       \* what NewClient returned, and the file reads made since
  frames        \* the calls in progress: each goroutine's position and locals

vars == << privKey, jwtCert, fresh, sigs, wraps, seals, envLog, wire, res,
           files, client, frames >>

\* fault variant: the random source gives every call the same values
Fresh_Reused(i) == i

\* the i-th opaque value of a call (crypto/rand draw or primitive output)
Fresh(i) == fresh + i

\* plaintext documents handed in by the callers
ByteVals == {CH_LT, 255}
Plaintexts == UNION { [1..n -> ByteVals] : n \in 0..MaxPlainLen }

\* ---------------------------------------------------------- JWS, signing
\* json.Marshal(token.Header): members in key order alg, kid, typ
JWSHeader(alg, kid, typ) == << alg, kid, typ >>

\* jwt.SigningMethodRSAPSS.Sign: the signature over sstr is a new opaque value
SignEntry(alg, key, sstr, sigval) ==
  [alg |-> alg, key |-> key, msg |-> sstr, sig |-> << sigval >>]

\* fault variant: the payload is marshalled as a JSON string before encoding
jwsWithRawPayload_Quoted(h, payload, sigval) ==
  LET sstr == B64Enc(h) \o << CH_DOT >>
                \o B64Enc(<< CH_QUOTE >> \o payload \o << CH_QUOTE >>) IN
  [sstr |-> sstr, token |-> sstr \o << CH_DOT >> \o B64Enc(<< sigval >>)]

\* jwsWithRawPayload(privateKey, token, payload): the signing input sstr and
\* the token; the signature made over sstr is the opaque value sigval
jwsWithRawPayload(h, payload, sigval) ==
  LET sstr == B64Enc(h) \o << CH_DOT >> \o B64Enc(payload) IN
  [sstr |-> sstr, token |-> sstr \o << CH_DOT >> \o B64Enc(<< sigval >>)]

\* json.Marshal(StringClaims(s)): the string in double quotes
\* (a compact JWE holds no character that JSON escapes)
MarshalStringClaims(s) == << CH_QUOTE >> \o s \o << CH_QUOTE >>

\* jwt.Token.SignedString for a token made by NewWithClaims(StringClaims(s)):
\* the payload segment encodes json.Marshal(claims)
SignedStringOfStringClaims(h, s, sigval) ==
  LET sstr == B64Enc(h) \o << CH_DOT >> \o B64Enc(MarshalStringClaims(s)) IN
  [sstr |-> sstr, token |-> sstr \o << CH_DOT >> \o B64Enc(<< sigval >>)]

\* json.Marshal(jwt.MapClaims{"request": s})
MarshalMapClaims(s) ==
  << CH_LBRACE, CH_QUOTE, CH_OTHER, CH_QUOTE, CH_COLON, CH_QUOTE >> \o s
    \o << CH_QUOTE, CH_RBRACE >>

\* ------------------------------------------------- JWS, parse and verify
ValidJWSHeader(h) ==
  /\ Len(h) = 3
  /\ h[1] \in 100..119
  /\ h[2] \in 140..149
  /\ h[3] \in 130..139

\* rawJSONWebSignature.sanitized: the header is a JSON object and its alg is
\* one of the algorithms the caller allows
SanitizedJWS(raw, algs) ==
  IF ValidJWSHeader(raw.protected) /\ raw.protected[1] \in algs
    THEN Ok(raw)
    ELSE Fail

\* fault variant: segments after the third are ignored
ParseSignedCompact_Lenient(s, algs) ==
  LET parts == SplitOn(s, CH_DOT) IN
  IF Len(parts) < 3 THEN Fail
  ELSE LET h == B64Dec(parts[1])
           p == B64Dec(parts[2])
           g == B64Dec(parts[3])
       IN IF ~h.ok \/ ~p.ok \/ ~g.ok THEN Fail
          ELSE SanitizedJWS([protected |-> h.v, payload |-> p.v,
                             signature |-> g.v], algs)

\* parseSignedCompact
ParseSignedCompact(s, algs) ==
  LET parts == SplitOn(s, CH_DOT) IN
  IF Len(parts) # 3 THEN Fail
  ELSE LET h == B64Dec(parts[1])
           p == B64Dec(parts[2])
           g == B64Dec(parts[3])
       IN IF ~h.ok \/ ~p.ok \/ ~g.ok THEN Fail
          ELSE SanitizedJWS([protected |-> h.v, payload |-> p.v,
                             signature |-> g.v], algs)

\* the members of a flattened JSON serialisation "{m1,m2,...}", each a
\* base64url string; Fail when the text is not such an object of n members
JSONMembers(s, n) ==
  IF Len(s) < 2 \/ s[1] # CH_LBRACE \/ s[Len(s)] # CH_RBRACE THEN Fail
  ELSE LET ms == SplitOn(SubSeq(s, 2, Len(s) - 1), CH_COMMA) IN
       IF Len(ms) # n \/ \E i \in 1..Len(ms) : ~B64Dec(ms[i]).ok THEN Fail
       ELSE Ok([i \in 1..n |-> B64Dec(ms[i]).v])

\* parseSignedFull: members payload, protected, signature
ParseSignedFull(s, algs) ==
  LET m == JSONMembers(s, 3) IN
  IF ~m.ok THEN Fail
  ELSE SanitizedJWS([protected |-> m.v[2], payload |-> m.v[1],
                     signature |-> m.v[3]], algs)

\* jose.ParseSigned
ParseSigned(input, algs) ==
  LET s == StripWhitespace(input) IN
  IF Len(s) > 0 /\ s[1] = CH_LBRACE
    THEN ParseSignedFull(s, algs)
    ELSE ParseSignedCompact(s, algs)

\* rsaEncrypterVerifier.verifyPayload: RSA keys verify RS* and PS* only
VerifyPayload(pub, input, sig, alg) ==
  /\ alg \in {ALG_PS256, ALG_RS256}
  /\ \E e \in sigs : e.alg = alg /\ e.key = pub /\ e.msg = input /\ e.sig = sig

\* JSONWebSignature.computeAuthData: the signing input is rebuilt by encoding
\* the decoded header and the decoded payload again
ComputeAuthData(protected, payload) ==
  B64Enc(protected) \o << CH_DOT >> \o B64Enc(payload)

\* JSONWebSignature.Verify
VerifyJWS(jws, pub) ==
  IF VerifyPayload(pub, ComputeAuthData(jws.protected, jws.payload),
                   jws.signature, jws.protected[1])
    THEN Ok(jws.payload)
    ELSE Fail

\* ------------------------------------------------------- JWE, encrypting
\* the protected header of jose.NewEncrypter(A256GCM, RSA_OAEP, WithType("JWE"))
JWEHeader(alg, enc, typ) == << alg, enc, typ >>

\* AES-GCM in counter mode: the ciphertext is as long as the plaintext
Keystream(cek, iv, pt) == [i \in 1..Len(pt) |-> (pt[i] + cek + iv) % 256]

Unkeystream(cek, iv, ct) ==
  [i \in 1..Len(ct) |-> (ct[i] + 512 - cek - iv) % 256]

WrapEntry(alg, pub, cek, ekval) ==
  [alg |-> alg, pub |-> pub, cek |-> cek, ek |-> << ekval >>]

SealEntry(h, cek, iv, pt, tagval) ==
  [enc |-> h[2], cek |-> cek, iv |-> << iv >>, aad |-> B64Enc(h),
   ct |-> Keystream(cek, iv, pt), tag |-> << tagval >>, pt |-> pt]

\* JSONWebEncryption.CompactSerialize
CompactJWE(h, ekval, iv, ct, tagval) ==
  JoinWith(<< B64Enc(h), B64Enc(<< ekval >>), B64Enc(<< iv >>), B64Enc(ct),
              B64Enc(<< tagval >>) >>, CH_DOT)

\* ------------------------------------------------ JWE, parse and decrypt
ValidJWEHeader(h) ==
  /\ Len(h) = 3
  /\ h[1] \in 100..119
  /\ h[2] \in 120..129
  /\ h[3] \in 130..139

\* rawJSONWebEncryption.sanitized
SanitizedJWE(raw, keyAlgs, encs) ==
  IF /\ ValidJWEHeader(raw.protected)
     /\ raw.protected[1] \in keyAlgs
     /\ raw.protected[2] \in encs
    THEN Ok(raw)
    ELSE Fail

\* parseEncryptedCompact
ParseEncryptedCompact(s, keyAlgs, encs) ==
  LET parts == SplitOn(s, CH_DOT) IN
  IF Len(parts) # 5 THEN Fail
  ELSE IF \E i \in 1..5 : ~B64Dec(parts[i]).ok THEN Fail
  ELSE SanitizedJWE([protected |-> B64Dec(parts[1]).v,
                     ek |-> B64Dec(parts[2]).v,
                     iv |-> B64Dec(parts[3]).v,
                     ct |-> B64Dec(parts[4]).v,
                     tag |-> B64Dec(parts[5]).v], keyAlgs, encs)

\* parseEncryptedFull: members protected, encrypted_key, iv, ciphertext, tag
ParseEncryptedFull(s, keyAlgs, encs) ==
  LET m == JSONMembers(s, 5) IN
  IF ~m.ok THEN Fail
  ELSE SanitizedJWE([protected |-> m.v[1], ek |-> m.v[2], iv |-> m.v[3],
                     ct |-> m.v[4], tag |-> m.v[5]], keyAlgs, encs)

\* jose.ParseEncrypted
ParseEncrypted(input, keyAlgs, encs) ==
  LET s == StripWhitespace(input) IN
  IF Len(s) > 0 /\ s[1] = CH_LBRACE
    THEN ParseEncryptedFull(s, keyAlgs, encs)
    ELSE ParseEncryptedCompact(s, keyAlgs, encs)

\* JSONWebEncryption.Decrypt: unwrap the content key with the private key,
\* then open the content under it with the re-encoded header as AAD
DecryptJWE(obj, priv) ==
  LET ws == { w \in wraps : /\ w.alg = obj.protected[1]
                            /\ w.pub = priv
                            /\ w.ek = obj.ek }
  IN IF ws = {} THEN Fail
     ELSE LET cek == (CHOOSE w \in ws : TRUE).cek
              ss == { e \in seals : /\ e.enc = obj.protected[2]
                                    /\ e.cek = cek
                                    /\ e.iv = obj.iv
                                    /\ e.aad = B64Enc(obj.protected)
                                    /\ e.ct = obj.ct
                                    /\ e.tag = obj.tag }
          IN IF ss = {} THEN Fail
             ELSE Ok(Unkeystream(cek, obj.iv[1], obj.ct))


\* --------------------------------------------------- the inbound verifier
E_NONE == "ok"
E_PARSE_JWS == "failed to parse JWS"
E_VERIFY_JWS == "failed to verify JWS signature"
E_PARSE_JWE == "failed to parse JWE token"
E_DECRYPT_JWE == "failed to decrypt JWE token"
E_DECODE == "decode response"
E_VERIFY_DECRYPT == "verify and decrypt JWS JWE"

\* fault variant: PKCS#1 v1.5 signatures are allowed as well
VerifierAlgs_WithRS256 == {ALG_PS256, ALG_RS256}

VerifierAlgs == {ALG_PS256}
VerifierKeyAlgs == {ALG_RSA_OAEP}
VerifierEncs == {ENC_A256GCM}

\* fault variant: the payload is returned as parsed, jws.Verify is not called
verifyJWS_Unverified(input, pub) ==
  LET jws == ParseSigned(input, VerifierAlgs) IN
  IF ~jws.ok THEN [err |-> E_PARSE_JWS, out |-> NIL]
  ELSE [err |-> E_NONE, out |-> jws.v.payload]

\* verifyAndDecryptJWSJWE(input, publicKey, privateKey); the method
\* Client.verifyJWSAndDecryptJWE is the same steps on the client's keys
\* the first half of the verifier: jose.ParseSigned, then jws.Verify
verifyJWS(input, pub) ==
  LET jws == ParseSigned(input, VerifierAlgs) IN
  IF ~jws.ok THEN [err |-> E_PARSE_JWS, out |-> NIL]
  ELSE LET pl == VerifyJWS(jws.v, pub) IN
  IF ~pl.ok THEN [err |-> E_VERIFY_JWS, out |-> NIL]
  ELSE [err |-> E_NONE, out |-> pl.v]

\* fault variant: a payload that is a claims object {"request":"..."} is
\* unwrapped before it is parsed as an Envelope
verifyAndDecryptJWSJWE_Unwrapping(input, pub, priv) ==
  LET pl == verifyJWS(input, pub) IN
  IF pl.err # E_NONE THEN pl
  ELSE LET inner == IF /\ Len(pl.out) >= 8
                       /\ pl.out[1] = CH_LBRACE
                       /\ pl.out[Len(pl.out)] = CH_RBRACE
                      THEN SubSeq(pl.out, 7, Len(pl.out) - 2)
                      ELSE pl.out
           obj == ParseEncrypted(inner, VerifierKeyAlgs, VerifierEncs) IN
  IF ~obj.ok THEN [err |-> E_PARSE_JWE, out |-> NIL]
  ELSE LET dec == DecryptJWE(obj.v, priv) IN
  IF ~dec.ok THEN [err |-> E_DECRYPT_JWE, out |-> NIL]
  ELSE [err |-> E_NONE, out |-> dec.v]

\* fault variant: a payload that is no Envelope is reported as a failed
\* decryption
verifyAndDecryptJWSJWE_OneText(input, pub, priv) ==
  LET pl == verifyJWS(input, pub) IN
  IF pl.err # E_NONE THEN pl
  ELSE LET obj == ParseEncrypted(pl.out, VerifierKeyAlgs, VerifierEncs) IN
  IF ~obj.ok THEN [err |-> E_DECRYPT_JWE, out |-> NIL]
  ELSE LET dec == DecryptJWE(obj.v, priv) IN
  IF ~dec.ok THEN [err |-> E_DECRYPT_JWE, out |-> NIL]
  ELSE [err |-> E_NONE, out |-> dec.v]

verifyAndDecryptJWSJWE(input, pub, priv) ==
  LET pl == verifyJWS(input, pub) IN
  IF pl.err # E_NONE THEN pl
  ELSE LET obj == ParseEncrypted(pl.out, VerifierKeyAlgs, VerifierEncs) IN
  IF ~obj.ok THEN [err |-> E_PARSE_JWE, out |-> NIL]
  ELSE LET dec == DecryptJWE(obj.v, priv) IN
  IF ~dec.ok THEN [err |-> E_DECRYPT_JWE, out |-> NIL]
  ELSE [err |-> E_NONE, out |-> dec.v]

\* xml.Decoder.Decode into a RefundResponse: the text must be a document
\* with a root element
XMLDecode(b) == IF Len(b) > 0 /\ b[1] = CH_LT THEN Ok(b) ELSE Fail

\* ------------------------------------------------------------ messages
NoMsg == [kind |-> "none", body |-> <<>>, pt |-> NIL, raw |-> NIL,
          env |-> NIL, signer |-> 0, recip |-> 0, hdr |-> NIL, jhdr |-> NIL,
          orig |-> NIL, recips |-> <<>>]

NoCert == [serial |-> 0, pub |-> 0]

NoRes == [op |-> "none", body |-> <<>>, err |-> E_NONE, out |-> NIL,
          resp |-> NIL, pub |-> 0, priv |-> 0, cert |-> NoCert,
          verifyCalls |-> 0, msg |-> NoMsg, detail |-> "", says |-> <<>>]

\* the goroutines that call into one shared client
Goroutines == {1, 2}

\* a goroutine that is in no call: pc is its position, in the call's
\* argument, jwe / payload the call's local variables, out and err what the
\* call returned
NoFrame == [pc |-> "idle", op |-> "none", in |-> <<>>, local |-> NIL,
            out |-> NIL, err |-> E_NONE]

NoFrames == [g \in Goroutines |-> NoFrame]

\* -------------------------------------------------------- the key store
\* A PEM file is a sequence of blocks (what pem.Decode yields one after the
\* other); a block has a type line and DER bytes, here what the bytes parse
\* as. A file that cannot be read has exists = FALSE.
StoreKeys == {1, 2}

PEMFile(blocks) == [exists |-> TRUE, blocks |-> blocks]
AbsentFile == [exists |-> FALSE, blocks |-> <<>>]

KeyBlockPKCS1(k) ==
  [type |-> "RSA PRIVATE KEY", der |-> [kind |-> "pkcs1", key |-> k]]
KeyBlockPKCS8(k) ==
  [type |-> "PRIVATE KEY", der |-> [kind |-> "pkcs8", key |-> k]]
KeyBlockNotRSA ==
  [type |-> "PRIVATE KEY", der |-> [kind |-> "pkcs8ec", key |-> 0]]
KeyBlockMalformed ==
  [type |-> "RSA PRIVATE KEY", der |-> [kind |-> "junk", key |-> 0]]
CertBlock(k) ==
  [type |-> "CERTIFICATE", der |-> [kind |-> "cert", key |-> k]]
CertBlockMalformed ==
  [type |-> "CERTIFICATE", der |-> [kind |-> "junk", key |-> 0]]
OtherBlock ==
  [type |-> "PUBLIC KEY", der |-> [kind |-> "junk", key |-> 0]]

PEMBlocks ==
  { KeyBlockPKCS1(k) : k \in StoreKeys } \cup { KeyBlockPKCS8(1) }
    \cup { CertBlock(k) : k \in StoreKeys }
    \cup { KeyBlockNotRSA, KeyBlockMalformed, CertBlockMalformed, OtherBlock }

\* x509.ParsePKCS1PrivateKey(block.Bytes)
ParsePKCS1PrivateKey(der) ==
  IF der.kind = "pkcs1" THEN Ok(der.key) ELSE Fail

\* x509.ParsePKCS8PrivateKey(block.Bytes) and the assertion that the key is
\* an *rsa.PrivateKey
ParsePKCS8PrivateKey(der) ==
  IF der.kind = "pkcs8" THEN Ok(der.key) ELSE Fail

\* x509.ParseCertificate(block.Bytes)
ParseCertificate(der) ==
  IF der.kind = "cert" THEN Ok([serial |-> der.key, pub |-> der.key])
  ELSE Fail

L_NONE == "ok"
L_READ == "read private key file"
L_PARSE_KEY == "parse private key"
L_PARSE_CERT == "parse certificate"
L_NO_KEY == "no private key found"
L_NO_CERT == "no certificate found"
L_READ_SERVER == "read server public key file"
L_DECODE_SERVER == "failed to decode server public key PEM"
L_PARSE_SERVER == "parse server certificate"

Loaded(err, key, cert) == [err |-> err, key |-> key, cert |-> cert]

\* the loop of loadPrivateKeyAndCert over the blocks of pemData, with the
\* key and the certificate found so far (0 and NoCert for nil)
RECURSIVE LoadLoop(_, _, _)
LoadLoop(pemData, privateKey, cert) ==
  IF Len(pemData) = 0
    THEN IF privateKey = 0 THEN Loaded(L_NO_KEY, 0, NoCert)
         ELSE IF cert = NoCert THEN Loaded(L_NO_CERT, 0, NoCert)
         ELSE Loaded(L_NONE, privateKey, cert)
  ELSE IF Head(pemData).type = "RSA PRIVATE KEY" /\ privateKey = 0
    THEN IF ParsePKCS1PrivateKey(Head(pemData).der).ok
           THEN LoadLoop(Tail(pemData),
                         ParsePKCS1PrivateKey(Head(pemData).der).v, cert)
           ELSE Loaded(L_PARSE_KEY, 0, NoCert)
  ELSE IF Head(pemData).type = "PRIVATE KEY" /\ privateKey = 0
    THEN IF ParsePKCS8PrivateKey(Head(pemData).der).ok
           THEN LoadLoop(Tail(pemData),
                         ParsePKCS8PrivateKey(Head(pemData).der).v, cert)
           ELSE Loaded(L_PARSE_KEY, 0, NoCert)
  ELSE IF Head(pemData).type = "CERTIFICATE" /\ cert = NoCert
    THEN IF ParseCertificate(Head(pemData).der).ok
           THEN LoadLoop(Tail(pemData), privateKey,
                         ParseCertificate(Head(pemData).der).v)
           ELSE Loaded(L_PARSE_CERT, 0, NoCert)
  ELSE LoadLoop(Tail(pemData), privateKey, cert)

\* loadPrivateKeyAndCert(combinedPEMFile)
loadPrivateKeyAndCert(file) ==
  IF ~file.exists THEN Loaded(L_READ, 0, NoCert)
  ELSE LoadLoop(file.blocks, 0, NoCert)

\* serverPublicCert(serverPublicKeyFile): the first block of the file,
\* whatever its type line says
serverPublicCert(file) ==
  IF ~file.exists THEN Loaded(L_READ_SERVER, 0, NoCert)
  ELSE IF Len(file.blocks) = 0 THEN Loaded(L_DECODE_SERVER, 0, NoCert)
  ELSE IF ~ParseCertificate(file.blocks[1].der).ok
    THEN Loaded(L_PARSE_SERVER, 0, NoCert)
  ELSE Loaded(L_NONE, 0, ParseCertificate(file.blocks[1].der).v)

\* no client: NewClient has not run, or it returned nil
NoClient == [made |-> FALSE, err |-> L_NONE, loads |-> FALSE,
             PublicCert |-> NoCert, ServerPKCS7PublicCert |-> NoCert,
             reads |-> 0]

\* the files of a working configuration, and the client made from them
FilesOf(own, server) ==
  [bundle |-> PEMFile(<< KeyBlockPKCS1(own), CertBlock(own) >>),
   jwt |-> PEMFile(<< CertBlock(server) >>),
   pkcs7 |-> PEMFile(<< CertBlock(server) >>),
   writes |-> 0]

ClientOf(f) ==
  [made |-> TRUE, err |-> L_NONE, loads |-> TRUE,
   PublicCert |-> loadPrivateKeyAndCert(f.bundle).cert,
   ServerPKCS7PublicCert |-> serverPublicCert(f.pkcs7).cert,
   reads |-> 3]

\* one encrypt call (encryptWithJWE, and the first half of
\* encryptJWEAndSignJWS): content key Fresh(1), wrapped key Fresh(2),
\* nonce Fresh(3), tag Fresh(4)
EnvelopeOf(h, pt) ==
  CompactJWE(h, Fresh(2), Fresh(3), Keystream(Fresh(1), Fresh(3), pt), Fresh(4))

EncryptEffects(h, pub, pt) ==
  /\ wraps' = wraps \cup { WrapEntry(h[1], pub, Fresh(1), Fresh(2)) }
  /\ seals' = seals \cup { SealEntry(h, Fresh(1), Fresh(3), pt, Fresh(4)) }
  /\ envLog' = Append(envLog, [env |-> EnvelopeOf(h, pt), cek |-> Fresh(1),
                                iv |-> Fresh(3), pt |-> pt, pub |-> pub])

\* record the signature Fresh(5) of the signed token st and put the token on
\* the wire
SignAndSend(kind, jh, st, payload, key, h, pub, pt) ==
  /\ sigs' = sigs \cup { SignEntry(jh[1], key, st.sstr, Fresh(5)) }
  /\ wire' = [kind |-> kind, body |-> st.token,
              pt |-> pt, raw |-> payload, env |-> EnvelopeOf(h, pt),
              signer |-> key, recip |-> pub, hdr |-> h, jhdr |-> jh,
              orig |-> NIL, recips |-> <<>>]
  /\ fresh' = fresh + 5

\* fault variant: the header of the gateway's sample request, without typ
ClientJWEHeader_NoType == JWEHeader(ALG_RSA_OAEP, ENC_A256GCM, TYP_ABSENT)

ClientJWEHeader == JWEHeader(ALG_RSA_OAEP, ENC_A256GCM, TYP_JWE)

\* fault variant: the document itself is signed, not the Envelope made of it
EncryptJWEAndSignJWS_SignsDocument(xmlData) ==
  /\ fresh + 5 <= MaxFresh
  /\ EncryptEffects(ClientJWEHeader, jwtCert, xmlData)
  /\ SignAndSend("v3", JWSHeader(ALG_PS256, KID_ABSENT, TYP_JWT),
                 jwsWithRawPayload(JWSHeader(ALG_PS256, KID_ABSENT, TYP_JWT),
                                   xmlData, Fresh(5)),
                 xmlData, privKey, ClientJWEHeader, jwtCert, xmlData)
  /\ res' = NoRes
  /\ UNCHANGED << frames, files, client, privKey, jwtCert >>

\* Client.encryptJWEAndSignJWS(xmlData)
EncryptJWEAndSignJWS(xmlData) ==
  /\ fresh + 5 <= MaxFresh
  /\ EncryptEffects(ClientJWEHeader, jwtCert, xmlData)
  /\ SignAndSend("v3", JWSHeader(ALG_PS256, KID_ABSENT, TYP_JWT),
                 jwsWithRawPayload(JWSHeader(ALG_PS256, KID_ABSENT, TYP_JWT),
                                   EnvelopeOf(ClientJWEHeader, xmlData),
                                   Fresh(5)),
                 EnvelopeOf(ClientJWEHeader, xmlData), privKey,
                 ClientJWEHeader, jwtCert, xmlData)
  /\ res' = NoRes
  /\ UNCHANGED << frames, files, client, privKey, jwtCert >>

E_ENCRYPT_TOKEN == "encrypt token"
E_LOAD_KEY == "load private key"

\* the request half of NewRefundRequest in refund.go failed on a key file
KeyFileFailure(err, why) ==
  res' = [NoRes EXCEPT !.op = "newrefund2", !.err = err, !.detail = why]

\* Client.NewRefundRequest of refund.go: encryptWithJWE reads the server
\* certificate file (serverPublicKey), then loadPrivateKeyAndCert reads the
\* bundle, then a kid header and jwsWithRawPayload; every call reads both
\* files again
NewRefundRequestV2(xmlData) ==
  /\ fresh + 5 <= MaxFresh
  /\ IF serverPublicCert(files.jwt).err # L_NONE
       THEN /\ KeyFileFailure(E_ENCRYPT_TOKEN, serverPublicCert(files.jwt).err)
            /\ client' = [client EXCEPT !.reads = @ + 1]
            /\ UNCHANGED << fresh, sigs, wraps, seals, envLog, wire >>
     ELSE IF loadPrivateKeyAndCert(files.bundle).err # L_NONE
       THEN /\ EncryptEffects(ClientJWEHeader,
                              serverPublicCert(files.jwt).cert.pub, xmlData)
            /\ fresh' = fresh + 4
            /\ KeyFileFailure(E_LOAD_KEY,
                              loadPrivateKeyAndCert(files.bundle).err)
            /\ client' = [client EXCEPT !.reads = @ + 2]
            /\ UNCHANGED << sigs, wire >>
     ELSE /\ EncryptEffects(ClientJWEHeader,
                            serverPublicCert(files.jwt).cert.pub, xmlData)
          /\ SignAndSend("v2", JWSHeader(ALG_PS256, KID_DIST, TYP_JWT),
                 jwsWithRawPayload(JWSHeader(ALG_PS256, KID_DIST, TYP_JWT),
                                   EnvelopeOf(ClientJWEHeader, xmlData),
                                   Fresh(5)),
                 EnvelopeOf(ClientJWEHeader, xmlData),
                 loadPrivateKeyAndCert(files.bundle).key,
                 ClientJWEHeader, serverPublicCert(files.jwt).cert.pub,
                 xmlData)
          /\ res' = NoRes
          /\ client' = [client EXCEPT !.reads = @ + 2]
  /\ UNCHANGED << frames, files, privKey, jwtCert >>

\* Client.NewRefundRequest of the first generation: the Envelope goes
\* through jwt.NewWithClaims(PS256, StringClaims(jweToken)).SignedString
NewRefundRequestV1(xmlData) ==
  /\ fresh + 5 <= MaxFresh
  /\ EncryptEffects(ClientJWEHeader, jwtCert, xmlData)
  /\ SignAndSend("v1", JWSHeader(ALG_PS256, KID_ABSENT, TYP_JWT),
                 SignedStringOfStringClaims(
                   JWSHeader(ALG_PS256, KID_ABSENT, TYP_JWT),
                   EnvelopeOf(ClientJWEHeader, xmlData), Fresh(5)),
                 MarshalStringClaims(EnvelopeOf(ClientJWEHeader, xmlData)),
                 privKey, ClientJWEHeader, jwtCert, xmlData)
  /\ res' = NoRes
  /\ UNCHANGED << frames, files, client, privKey, jwtCert >>


\* xml.MarshalIndent(req): a request document always has a root element
RequestDocs == { d \in Plaintexts : Len(d) > 0 /\ d[1] = CH_LT }

\* ------------------------------------------------------------ the gateway
\* What the counterpart (or whoever answers in its place) puts into the
\* response body read by io.ReadAll(resp.Body).
GatewayToken(kind, jh, payload, key, h, pub, pt) ==
  /\ fresh + 5 <= MaxFresh
  /\ wraps' = wraps \cup { WrapEntry(h[1], pub, Fresh(1), Fresh(2)) }
  /\ seals' = seals \cup { SealEntry(h, Fresh(1), Fresh(3), pt, Fresh(4)) }
  /\ sigs' = IF jh[1] = ALG_NONE THEN sigs
             ELSE sigs \cup { SignEntry(jh[1], key,
                                        ComputeAuthData(jh, payload), Fresh(5)) }
  /\ wire' = [kind |-> kind,
              body |-> ComputeAuthData(jh, payload) \o << CH_DOT >> \o
                       (IF jh[1] = ALG_NONE THEN <<>> ELSE B64Enc(<< Fresh(5) >>)),
              pt |-> pt, raw |-> payload, env |-> EnvelopeOf(h, pt),
              signer |-> key, recip |-> pub, hdr |-> h, jhdr |-> jh,
              orig |-> NIL, recips |-> <<>>]
  /\ fresh' = fresh + 5
  /\ res' = NoRes
  /\ UNCHANGED << frames, files, client, privKey, jwtCert, envLog >>

GatewayJWSHeader == JWSHeader(ALG_PS256, KID_ABSENT, TYP_JWT)

\* a well-formed reply, signed with key pair s and encrypted to key pair r
GatewayReply(pt, s, r) ==
  GatewayToken("reply", GatewayJWSHeader, EnvelopeOf(ClientJWEHeader, pt),
               s, ClientJWEHeader, r, pt)

\* a reply made with the right keys but other algorithms
GatewayOtherAlg(pt, sigalg, keyalg, enc) ==
  /\ << sigalg, keyalg, enc >> # << ALG_PS256, ALG_RSA_OAEP, ENC_A256GCM >>
  /\ GatewayToken("alg", JWSHeader(sigalg, KID_ABSENT, TYP_JWT),
                  EnvelopeOf(JWEHeader(keyalg, enc, TYP_JWE), pt),
                  jwtCert, JWEHeader(keyalg, enc, TYP_JWE), privKey, pt)

\* a reply whose payload is the Envelope wrapped in a JSON claims object
GatewayMapClaims(pt) ==
  GatewayToken("mapclaims", GatewayJWSHeader,
               MarshalMapClaims(EnvelopeOf(ClientJWEHeader, pt)),
               jwtCert, ClientJWEHeader, privKey, pt)

\* the flattened JSON serialisation of a token "h.p.s"
JSONForm(body) ==
  LET parts == SplitOn(body, CH_DOT) IN
  << CH_LBRACE >> \o parts[2] \o << CH_COMMA >> \o parts[1] \o << CH_COMMA >>
    \o parts[3] \o << CH_RBRACE >>

\* the message in flight rewritten without changing what it carries
Reserialise(mode) ==
  /\ wire.kind \in {"reply", "v3", "v2"}
  /\ wire' = [wire EXCEPT
        !.kind = mode,
        !.orig = wire.body,
        !.body = CASE mode = "json" -> JSONForm(wire.body)
                   [] mode = "ws" -> wire.body \o << CH_WS >>
                   [] mode = "two" ->
                        JoinWith(SubSeq(SplitOn(wire.body, CH_DOT), 1, 2), CH_DOT)
                   [] mode = "four" -> wire.body \o << CH_DOT >> \o << 0, 0 >>
                   [] mode = "empty" -> <<>> ]
  /\ UNCHANGED << frames, files, client, privKey, jwtCert, fresh, sigs, wraps, seals, envLog, res >>

\* a body that is no token at all: a bare document
GatewayPlain(doc) ==
  /\ wire' = [NoMsg EXCEPT !.kind = "plain", !.body = doc, !.pt = doc]
  /\ res' = NoRes
  /\ UNCHANGED << frames, files, client, privKey, jwtCert, fresh, sigs, wraps, seals, envLog >>

\* ------------------------------------------------------- error values
\* The text of an error value, by parts: a part is text the code or a
\* library writes itself, or a value formatted into the text (%s, %q, %v).
Lit(t) == [text |-> t, data |-> <<>>]
Quoted(d) == [text |-> "%q", data |-> d]

D_JOSE_FORMAT == "go-jose/go-jose: malformed token"
D_JOSE_SIGALG == "go-jose/go-jose: unexpected signature algorithm"
D_JOSE_KEYALG == "go-jose/go-jose: unexpected key algorithm"
D_JOSE_ENC == "go-jose/go-jose: unexpected content encryption algorithm"
D_JOSE_CRYPTO == "go-jose/go-jose: error in cryptographic primitive"
D_XML_SYNTAX == "XML syntax error"

\* the header of a compact serialisation, when it has n segments and its
\* first segment decodes to a header of three members
CompactHeader(s, n) ==
  IF Len(SplitOn(StripWhitespace(s), CH_DOT)) # n THEN Fail
  ELSE IF ~B64Dec(SplitOn(StripWhitespace(s), CH_DOT)[1]).ok THEN Fail
  ELSE IF Len(B64Dec(SplitOn(StripWhitespace(s), CH_DOT)[1]).v) # 3 THEN Fail
  ELSE B64Dec(SplitOn(StripWhitespace(s), CH_DOT)[1])

\* the error of jose.ParseSigned: an algorithm that is not allowed is quoted
\* from the header, every other failure is described without the input
ParseSignedError(input) ==
  IF /\ CompactHeader(input, 3).ok
     /\ ValidJWSHeader(CompactHeader(input, 3).v)
     /\ CompactHeader(input, 3).v[1] \notin VerifierAlgs
    THEN << Lit(D_JOSE_SIGALG), Quoted(<< CompactHeader(input, 3).v[1] >>) >>
    ELSE << Lit(D_JOSE_FORMAT) >>

\* the error of jose.ParseEncrypted on the verified payload
ParseEncryptedError(payload) ==
  IF /\ CompactHeader(payload, 5).ok
     /\ ValidJWEHeader(CompactHeader(payload, 5).v)
     /\ CompactHeader(payload, 5).v[1] \notin VerifierKeyAlgs
    THEN << Lit(D_JOSE_KEYALG), Quoted(<< CompactHeader(payload, 5).v[1] >>) >>
  ELSE IF /\ CompactHeader(payload, 5).ok
          /\ ValidJWEHeader(CompactHeader(payload, 5).v)
          /\ CompactHeader(payload, 5).v[2] \notin VerifierEncs
    THEN << Lit(D_JOSE_ENC), Quoted(<< CompactHeader(payload, 5).v[2] >>) >>
  ELSE << Lit(D_JOSE_FORMAT) >>

\* the library error an envelope operation wraps (%w, %v) in its own
LibraryError(r, input, pub) ==
  IF "detail" \in DOMAIN r THEN << Lit(r.detail) >>
  ELSE IF r.err = E_PARSE_JWS THEN ParseSignedError(input)
  ELSE IF r.err = E_PARSE_JWE
    THEN ParseEncryptedError(verifyJWS(input, pub).out)
  ELSE << Lit(D_JOSE_CRYPTO) >>

\* fault variant: the input is added to the error for debugging
ErrorValue_WithInput(r, input, pub) ==
  IF r.err = E_NONE THEN <<>>
  ELSE << Lit(r.err) >> \o LibraryError(r, input, pub) \o << Quoted(input) >>

\* fmt.Errorf("<text of the step>: %w", err) of the envelope operations
ErrorValue(r, input, pub) ==
  IF r.err = E_NONE THEN <<>>
  ELSE << Lit(r.err) >> \o LibraryError(r, input, pub)

\* ------------------------------------------------------ inbound handlers
Outcome(op, pub, priv, r, calls) ==
  [op |-> op, body |-> wire.body, err |-> r.err, out |-> r.out,
   resp |-> NIL, pub |-> pub, priv |-> priv, cert |-> NoCert,
   verifyCalls |-> calls, msg |-> wire, detail |-> "",
   says |-> ErrorValue(r, wire.body, pub)]

\* fault variant: the signature is checked against the client's own key
VerifyJWSAndDecryptJWE_OwnKey ==
  /\ wire.kind # "none"
  /\ res' = Outcome("verify", privKey, privKey,
                    verifyAndDecryptJWSJWE(wire.body, privKey, privKey), 1)
  /\ wire' = NoMsg
  /\ UNCHANGED << frames, files, client, privKey, jwtCert, fresh, sigs, wraps, seals, envLog >>

\* Client.verifyJWSAndDecryptJWE(inputToken)
VerifyJWSAndDecryptJWE ==
  /\ wire.kind # "none"
  /\ res' = Outcome("verify", jwtCert, privKey,
                    verifyAndDecryptJWSJWE(wire.body, jwtCert, privKey), 1)
  /\ wire' = NoMsg
  /\ UNCHANGED << frames, files, client, privKey, jwtCert, fresh, sigs, wraps, seals, envLog >>

\* verifyAndDecryptJWSJWE called with keys of the caller's choosing
VerifyAndDecryptJWSJWE(pub, priv) ==
  /\ wire.kind # "none"
  /\ res' = Outcome("verifyWith", pub, priv,
                    verifyAndDecryptJWSJWE(wire.body, pub, priv), 1)
  /\ wire' = NoMsg
  /\ UNCHANGED << frames, files, client, privKey, jwtCert, fresh, sigs, wraps, seals, envLog >>

\* the request half of Refund: NewRefundRequest, then httpClient.Do
SendRequest(jh, st, xmlData) ==
  /\ fresh + 5 <= MaxFresh
  /\ EncryptEffects(ClientJWEHeader, jwtCert, xmlData)
  /\ sigs' = sigs \cup { SignEntry(jh[1], privKey, st.sstr, Fresh(5)) }
  /\ fresh' = fresh + 5

\* what Refund returns for the verifier's result r and the decoding x of
\* the plaintext: the first error met, or the decoded response
RefundResult(op, r, x) ==
  [Outcome(op, jwtCert, privKey, r, 1) EXCEPT
     !.out = NIL,
     !.err = IF r.err # E_NONE THEN r.err
             ELSE IF ~x.ok THEN E_DECODE ELSE E_NONE,
     !.resp = IF r.err = E_NONE /\ x.ok THEN x.v ELSE NIL,
     !.says = IF r.err # E_NONE THEN << Lit(E_VERIFY_DECRYPT) >> \o @
              ELSE IF ~x.ok THEN << Lit(E_DECODE), Lit(D_XML_SYNTAX) >>
              ELSE <<>>]

\* xml.NewDecoder(bytes.NewReader(decrypted)).Decode, reached only when the
\* verifier returned no error
RefundDecode(op, r) ==
  RefundResult(op, r, IF r.err = E_NONE THEN XMLDecode(r.out) ELSE Fail)

\* the response half of Refund in refund.go and in the last generation
RefundOutcome(op) ==
  RefundDecode(op, verifyAndDecryptJWSJWE(wire.body, jwtCert, privKey))

\* Client.Refund, last generation
RefundV3(xmlData) ==
  /\ SendRequest(JWSHeader(ALG_PS256, KID_ABSENT, TYP_JWT),
                 jwsWithRawPayload(JWSHeader(ALG_PS256, KID_ABSENT, TYP_JWT),
                                   EnvelopeOf(ClientJWEHeader, xmlData),
                                   Fresh(5)), xmlData)
  /\ res' = RefundOutcome("refund3")
  /\ wire' = NoMsg
  /\ UNCHANGED << frames, files, client, privKey, jwtCert >>

\* Client.Refund of refund.go
RefundV2(xmlData) ==
  /\ SendRequest(JWSHeader(ALG_PS256, KID_DIST, TYP_JWT),
                 jwsWithRawPayload(JWSHeader(ALG_PS256, KID_DIST, TYP_JWT),
                                   EnvelopeOf(ClientJWEHeader, xmlData),
                                   Fresh(5)), xmlData)
  /\ res' = RefundOutcome("refund2")
  /\ wire' = NoMsg
  /\ UNCHANGED << frames, files, client, privKey, jwtCert >>

\* Client.Refund of the first generation: the body is decoded as XML as it
\* arrives
RefundV1(xmlData) ==
  /\ SendRequest(JWSHeader(ALG_PS256, KID_ABSENT, TYP_JWT),
                 SignedStringOfStringClaims(
                   JWSHeader(ALG_PS256, KID_ABSENT, TYP_JWT),
                   EnvelopeOf(ClientJWEHeader, xmlData), Fresh(5)), xmlData)
  /\ res' = LET x == XMLDecode(wire.body) IN
            [op |-> "refund1", body |-> wire.body,
             err |-> IF x.ok THEN E_NONE ELSE E_DECODE, out |-> NIL,
             resp |-> x.v, pub |-> 0, priv |-> 0, cert |-> NoCert,
             verifyCalls |-> 0, msg |-> wire, detail |-> "",
             says |-> IF x.ok THEN <<>>
                      ELSE << Lit(E_DECODE), Lit(D_XML_SYNTAX) >>]
  /\ wire' = NoMsg
  /\ UNCHANGED << frames, files, client, privKey, jwtCert >>

\* ---------------------------------------------------------- specification
Init ==
  /\ privKey \in Keys
  /\ jwtCert \in Keys
  /\ fresh = 0
  /\ sigs = {}
  /\ wraps = {}
  /\ seals = {}
  /\ envLog = <<>>
  /\ wire = NoMsg
  /\ frames = NoFrames
  /\ res = NoRes
  /\ files = FilesOf(privKey, jwtCert)
  /\ client = ClientOf(files)

\* one exchange: a token is made once, by the client or by the gateway, may
\* be rewritten in flight, and reaches one inbound handler; Refund, which
\* makes a request of its own before it reads the reply, runs once
Next ==
  \/ \E d \in Plaintexts : fresh = 0 /\ EncryptJWEAndSignJWS(d)
  \/ \E d \in RequestDocs : fresh = 0 /\ NewRefundRequestV2(d)
  \/ \E d \in RequestDocs : fresh = 0 /\ NewRefundRequestV1(d)
  \/ \E d \in Plaintexts, s \in Keys, r \in Keys :
       fresh = 0 /\ GatewayReply(d, s, r)
  \/ \E d \in Plaintexts : fresh = 0 /\ GatewayMapClaims(d)
  \/ \E d \in RequestDocs : fresh = 0 /\ GatewayPlain(d)
  \/ \E m \in {"json", "ws", "two", "four", "empty"} : Reserialise(m)
  \/ VerifyJWSAndDecryptJWE
  \/ \E pub \in Keys, priv \in Keys : VerifyAndDecryptJWSJWE(pub, priv)
  \/ \E d \in RequestDocs : fresh <= 5 /\ RefundV3(d)
  \/ \E d \in RequestDocs : fresh <= 5 /\ RefundV2(d)
  \/ \E d \in RequestDocs : fresh <= 5 /\ RefundV1(d)

Spec == Init /\ [][Next]_vars

\* a sequence of encrypt calls by one client, as many as MaxFresh allows
NextEncrypt ==
  \/ \E d \in Plaintexts : EncryptJWEAndSignJWS(d)
  \/ \E d \in RequestDocs : NewRefundRequestV2(d)
  \/ \E d \in RequestDocs : NewRefundRequestV1(d)

SpecEncrypt == Init /\ [][NextEncrypt]_vars


\* ------------------------------------------------ signing arbitrary bytes
RawVals == {CH_DOT, 255}
RawPayloads == UNION { [1..n -> RawVals] : n \in 0..MaxRawLen }

\* jwsWithRawPayload(key, jwt.New(PS256), b)
SignRaw(b, key) ==
  /\ fresh + 1 <= MaxFresh
  /\ LET jh == JWSHeader(ALG_PS256, KID_ABSENT, TYP_JWT)
         st == jwsWithRawPayload(jh, b, Fresh(1))
     IN /\ sigs' = sigs \cup { SignEntry(jh[1], key, st.sstr, Fresh(1)) }
        /\ wire' = [NoMsg EXCEPT !.kind = "raw", !.body = st.token,
                                 !.raw = b, !.signer = key, !.jhdr = jh]
  /\ fresh' = fresh + 1
  /\ res' = NoRes
  /\ UNCHANGED << frames, files, client, privKey, jwtCert, wraps, seals, envLog >>

\* jose.ParseSigned and jws.Verify alone, under public key pub
VerifyRaw(pub) ==
  /\ wire.kind # "none"
  /\ res' = Outcome("verifyRaw", pub, 0, verifyJWS(wire.body, pub), 1)
  /\ wire' = NoMsg
  /\ UNCHANGED << frames, files, client, privKey, jwtCert, fresh, sigs, wraps, seals, envLog >>

\* ------------------------------------------------------------- tampering
\* the positions of segment k of a dot-separated string
SegmentPositions(body, k) ==
  LET parts == SplitOn(body, CH_DOT)
      start == IF k = 1 THEN 0
               ELSE Len(JoinWith(SubSeq(parts, 1, k - 1), CH_DOT)) + 1
  IN (start + 1)..(start + Len(parts[k]))

\* the positions of the payload and signature segments of a token in flight
MutablePositions ==
  IF wire.kind \in {"v3", "raw"} /\ wire.orig = NIL
    THEN SegmentPositions(wire.body, 2) \cup SegmentPositions(wire.body, 3)
    ELSE {}

\* one character of the payload or of the signature segment is replaced
MutateByte(i, c) ==
  /\ i \in MutablePositions
  /\ c # wire.body[i]
  /\ wire' = [wire EXCEPT !.orig = wire.body,
                          !.body = [wire.body EXCEPT ![i] = c]]
  /\ UNCHANGED << frames, files, client, privKey, jwtCert, fresh, sigs, wraps, seals, envLog, res >>

\* one token, made by a client that is its own counterpart (as in
\* TestVoidCancel), tampered with once and then verified
InitTamper == Init /\ jwtCert = privKey

NextTamper ==
  \/ \E d \in Plaintexts : fresh = 0 /\ EncryptJWEAndSignJWS(d)
  \/ \E b \in RawPayloads : fresh = 0 /\ SignRaw(b, privKey)
  \/ \E i \in MutablePositions, c \in 0..MaxChar : MutateByte(i, c)
  \/ wire.kind = "v3" /\ VerifyJWSAndDecryptJWE
  \/ \E pub \in Keys : wire.kind = "raw" /\ VerifyRaw(pub)

SpecTamper == InitTamper /\ [][NextTamper]_vars

NextAlg ==
  \/ \E d \in Plaintexts, sa \in SigAlgs, ka \in KeyAlgs, en \in EncAlgs :
        fresh = 0 /\ GatewayOtherAlg(d, sa, ka, en)
  \/ \E d \in Plaintexts : fresh = 0 /\ GatewayReply(d, jwtCert, privKey)
  \/ VerifyJWSAndDecryptJWE
  \/ \E pub \in Keys, priv \in Keys : VerifyAndDecryptJWSJWE(pub, priv)

SpecAlg == Init /\ [][NextAlg]_vars


\* ------------------------------------------------ legacy enveloped data
\* a certificate: its issuer and serial number, and the key pair it names;
\* there is one certificate per key pair
Certs == { [serial |-> k, pub |-> k] : k \in Keys }

\* base64.StdEncoding: the alphabet by index, padded with '=' to a
\* multiple of four characters
B64StdEnc(b) ==
  B64Enc(b) \o (CASE Len(b) % 3 = 0 -> <<>>
                  [] Len(b) % 3 = 1 -> << CH_PAD, CH_PAD >>
                  [] Len(b) % 3 = 2 -> << CH_PAD >>)

\* the number of '=' characters that end s, two at most
PadCount(s) ==
  IF Len(s) >= 2 /\ s[Len(s)] = CH_PAD /\ s[Len(s) - 1] = CH_PAD THEN 2
  ELSE IF Len(s) >= 1 /\ s[Len(s)] = CH_PAD THEN 1
  ELSE 0

\* base64.StdEncoding.DecodeString
B64StdDec(s) ==
  LET core == SubSeq(s, 1, Len(s) - PadCount(s)) IN
  IF \/ Len(s) % 4 # 0
     \/ \E i \in 1..Len(core) : core[i] > 63
    THEN Fail
    ELSE Ok(B64Bytes(core))

\* the texts of the error values the library calls return, which
\* decryptPKCS7 appends to its own message with %v
D_BASE64 == "illegal base64 data"
D_EMPTY == "pkcs7: input data is empty"
D_ASN1 == "asn1: structure error"
D_NOT_ENCRYPTED == "pkcs7: content data is a decryptable data type"
D_NO_RECIPIENT == "pkcs7: no enveloped recipient for provided certificate"
D_RSA == "crypto/rsa: decryption error"
D_UNSUPPORTED == "pkcs7: cannot decrypt data: unsupported algorithm"
D_PADDING == "pkcs7: invalid padding"

\* PKCS#7 block padding of pkcs7.Encrypt
Pad(pt) ==
  LET n == DESBlockSize - (Len(pt) % DESBlockSize) IN
  pt \o [i \in 1..n |-> n]

\* pkcs7 unpad: the last byte is the length of the padding, every padding
\* byte must equal it (a length beyond the data is an error here; the
\* content of an opened envelope is never padded that way)
Unpad(data) ==
  IF Len(data) = 0 \/ Len(data) % DESBlockSize # 0 THEN FailWith(D_PADDING)
  ELSE LET n == data[Len(data)] IN
       IF n > Len(data) THEN FailWith(D_PADDING)
       ELSE IF \E i \in (Len(data) - n + 1)..Len(data) : data[i] # n
         THEN FailWith(D_PADDING)
       ELSE Ok(SubSeq(data, 1, Len(data) - n))

\* the DER bytes of an enveloped-data structure: one (issuer and serial,
\* encrypted key) pair per recipient, then the content encryption algorithm,
\* its IV and the encrypted content
RECURSIVE RecipientInfos(_, _)
RecipientInfos(recips, ekBase) ==
  IF Len(recips) = 0 THEN <<>>
  ELSE << recips[1].serial, ekBase + 1 >>
       \o RecipientInfos(Tail(recips), ekBase + 1)

EnvelopedDER(recips, ekBase, alg, iv, ct) ==
  << P7_ENVELOPED, Len(recips) >> \o RecipientInfos(recips, ekBase)
    \o << alg, iv >> \o ct

\* pkcs7.Parse
P7Parse(b) ==
  IF Len(b) = 0 THEN FailWith(D_EMPTY)
  ELSE IF Len(b) < 2 \/ b[1] \notin {P7_ENVELOPED, P7_SIGNED}
    THEN FailWith(D_ASN1)
  ELSE IF b[1] = P7_SIGNED THEN Ok([type |-> P7_SIGNED])
  ELSE LET n == b[2] IN
       IF Len(b) < 2 * n + 4 THEN FailWith(D_ASN1)
       ELSE Ok([type |-> P7_ENVELOPED,
                recips |-> [i \in 1..n |-> [serial |-> b[2 * i + 1],
                                            ek |-> << b[2 * i + 2] >>]],
                alg |-> b[2 * n + 3],
                iv |-> b[2 * n + 4],
                ct |-> SubSeq(b, 2 * n + 5, Len(b))])

\* fault variant: the first recipient entry is taken whatever it names
SelectRecipient_First(recips, cert) == 1

\* selectRecipientForCertificate: the first entry whose issuer and serial
\* are those of the certificate; 0 when none is
SelectRecipient(recips, cert) ==
  IF \A i \in 1..Len(recips) : recips[i].serial # cert.serial THEN 0
  ELSE CHOOSE i \in 1..Len(recips) :
         /\ recips[i].serial = cert.serial
         /\ \A j \in 1..(i - 1) : recips[j].serial # cert.serial

\* PKCS7.Decrypt(cert, pk): rsa.DecryptPKCS1v15 of the selected recipient's
\* key, then CBC decryption and unpadding of the content
P7Decrypt(p7, cert, priv) ==
  IF p7.type # P7_ENVELOPED THEN FailWith(D_NOT_ENCRYPTED)
  ELSE LET i == SelectRecipient(p7.recips, cert) IN
  IF i = 0 THEN FailWith(D_NO_RECIPIENT)
  ELSE LET ws == { w \in wraps : /\ w.alg = ALG_RSA1_5
                                 /\ w.pub = priv
                                 /\ w.ek = p7.recips[i].ek }
  IN IF ws = {} THEN FailWith(D_RSA)
     ELSE IF p7.alg # ENC_DES_CBC THEN FailWith(D_UNSUPPORTED)
     ELSE Unpad(Unkeystream((CHOOSE w \in ws : TRUE).cek, p7.iv, p7.ct))

E_BASE64 == "failed to decode base64 data"
E_PKCS7 == "failed to parse PKCS7 data"
E_DECRYPT == "failed to decrypt data"

\* decryptPKCS7(encryptedData, privateKey, publicCert)
\* fault variant: a failure of p7.Decrypt is reported with the message of a
\* failure of pkcs7.Parse
decryptPKCS7_OneMessage(encryptedData, priv, cert) ==
  LET decoded == B64StdDec(encryptedData) IN
  IF ~decoded.ok THEN [err |-> E_BASE64, out |-> NIL, detail |-> D_BASE64]
  ELSE LET p7 == P7Parse(decoded.v) IN
  IF ~p7.ok THEN [err |-> E_PKCS7, out |-> NIL, detail |-> p7.why]
  ELSE LET dec == P7Decrypt(p7.v, cert, priv) IN
  IF ~dec.ok THEN [err |-> E_PKCS7, out |-> NIL, detail |-> D_ASN1]
  ELSE [err |-> E_NONE, out |-> dec.v, detail |-> ""]

\* decryptPKCS7(encryptedData, privateKey, publicCert): err is the message
\* of the failing step, detail the text of the library's error after it
decryptPKCS7(encryptedData, priv, cert) ==
  LET decoded == B64StdDec(encryptedData) IN
  IF ~decoded.ok THEN [err |-> E_BASE64, out |-> NIL, detail |-> D_BASE64]
  ELSE LET p7 == P7Parse(decoded.v) IN
  IF ~p7.ok THEN [err |-> E_PKCS7, out |-> NIL, detail |-> p7.why]
  ELSE LET dec == P7Decrypt(p7.v, cert, priv) IN
  IF ~dec.ok THEN [err |-> E_DECRYPT, out |-> NIL, detail |-> dec.why]
  ELSE [err |-> E_NONE, out |-> dec.v, detail |-> ""]

RecipientLists == UNION { [1..n -> Certs] : n \in 1..MaxRecipients }

\* the gateway envelopes a document for a list of recipient certificates
\* (pkcs7.Encrypt, then base64): content key Fresh(1), IV Fresh(2), one
\* encrypted key per recipient from Fresh(3) on
GatewayEnvelope(pt, recips) ==
  /\ fresh + 2 + Len(recips) <= MaxFresh
  /\ wraps' = wraps \cup { WrapEntry(ALG_RSA1_5, recips[i].pub, Fresh(1),
                                     Fresh(2 + i)) : i \in 1..Len(recips) }
  /\ wire' = [NoMsg EXCEPT
        !.kind = "p7",
        !.body = B64StdEnc(EnvelopedDER(recips, Fresh(2), ENC_DES_CBC, Fresh(2),
                                        Keystream(Fresh(1), Fresh(2), Pad(pt)))),
        !.pt = pt,
        !.recips = recips]
  /\ fresh' = fresh + 2 + Len(recips)
  /\ res' = NoRes
  /\ UNCHANGED << frames, files, client, privKey, jwtCert, sigs, seals, envLog >>

\* the paymentResponse form value as a broken sender, or a request
\* without the field, delivers it
FormKinds == {"p7", "badchar", "emptyform", "notasn1", "signed"}

CorruptForm(mode) ==
  /\ wire.kind = "p7"
  /\ mode \in FormKinds \ {"p7"}
  /\ wire' = [wire EXCEPT
        !.kind = mode,
        !.orig = wire.body,
        !.body = CASE mode = "badchar" -> [wire.body EXCEPT ![1] = CH_DOT]
                   [] mode = "emptyform" -> <<>>
                   [] mode = "notasn1" -> B64StdEnc(<< 0, 0, 0 >>)
                   [] mode = "signed" -> B64StdEnc(<< P7_SIGNED, 0 >>) ]
  /\ UNCHANGED << frames, files, client, privKey, jwtCert, fresh, sigs, wraps, seals, envLog, res >>

\* the outcome of a legacy decryption: r from decryptPKCS7
LegacyOutcome(op, priv, cert, r) ==
  [Outcome(op, 0, priv, r, 1) EXCEPT !.cert = cert, !.detail = r.detail]

\* decryptPKCS7 on the form value; a form value can be read again
DecryptPKCS7(priv, cert) ==
  /\ wire.kind \in FormKinds
  /\ res' = LegacyOutcome("decryptPKCS7", priv, cert,
                          decryptPKCS7(wire.body, priv, cert))
  /\ UNCHANGED << frames, files, client, privKey, jwtCert, fresh, sigs, wraps, seals, envLog, wire >>

E_XML == "error parsing XML response"
E_RESPONSE == "error decrypting response"

\* fault variant: the certificate of the PKCS7 counterpart is used to find
\* the recipient entry
OwnCert_ServerPKCS7 == client.ServerPKCS7PublicCert

\* Client.PublicCert: the certificate loaded with the client's private key
OwnCert == client.PublicCert

\* what DecryptPaymentResponseBackend returns for decryptPKCS7's result r
\* and the parse x of the decrypted bytes: the response and the bytes, or
\* the first error and neither
BackendResult(r, x) ==
  [LegacyOutcome("backend", privKey, OwnCert, r) EXCEPT
     !.err = IF r.err # E_NONE THEN r.err
             ELSE IF ~x.ok THEN E_XML ELSE E_NONE,
     !.out = IF r.err = E_NONE /\ x.ok THEN r.out ELSE NIL,
     !.resp = IF r.err = E_NONE /\ x.ok THEN x.v ELSE NIL,
     !.says = IF r.err # E_NONE THEN << Lit(E_RESPONSE) >> \o @
              ELSE IF ~x.ok THEN << Lit(E_XML), Lit(D_XML_SYNTAX) >>
              ELSE <<>>]

BackendParse(r) ==
  BackendResult(r, IF r.err = E_NONE THEN XMLDecode(r.out) ELSE Fail)

\* Client.DecryptPaymentResponseBackend(r)
DecryptPaymentResponseBackend ==
  /\ wire.kind \in FormKinds
  /\ res' = BackendParse(decryptPKCS7(wire.body, privKey, OwnCert))
  /\ UNCHANGED << frames, files, client, privKey, jwtCert, fresh, sigs, wraps, seals, envLog, wire >>

NextLegacy ==
  \/ \E d \in Plaintexts, rs \in RecipientLists :
       fresh = 0 /\ GatewayEnvelope(d, rs)
  \/ \E m \in FormKinds \ {"p7"} : CorruptForm(m)
  \/ \E k \in Keys, c \in Certs : DecryptPKCS7(k, c)
  \/ DecryptPaymentResponseBackend

SpecLegacy == Init /\ [][NextLegacy]_vars

\* ------------------------------------------------- loading the key store
\* the bundles handed to loadPrivateKeyAndCert
Bundles ==
  { AbsentFile } \cup
  { PEMFile(b) : b \in UNION { [1..n -> PEMBlocks] : n \in 0..MaxBlocks } }

\* one call of loadPrivateKeyAndCert on the bundle on disk
LoadPrivateKeyAndCert ==
  /\ res.op = "none"
  /\ res' = [NoRes EXCEPT !.op = "load",
                          !.err = loadPrivateKeyAndCert(files.bundle).err,
                          !.priv = loadPrivateKeyAndCert(files.bundle).key,
                          !.cert = loadPrivateKeyAndCert(files.bundle).cert]
  /\ client' = [client EXCEPT !.reads = @ + 1]
  /\ UNCHANGED << frames, files, privKey, jwtCert, fresh, sigs, wraps, seals, envLog,
                  wire >>

\* x509.ParsePKCS8PrivateKey(block.Bytes) as Decrypt uses it: any kind of
\* key is taken
NotRSAKey == -1
ParsePKCS8AnyKey(der) ==
  IF der.kind = "pkcs8" THEN Ok(der.key)
  ELSE IF der.kind = "pkcs8ec" THEN Ok(NotRSAKey)
  ELSE Fail

P_PARSE_KEY == "failed to parse private key"
P_PARSE_CERT == "failed to parse certificate"
P_NO_KEY == "no private key found in PEM data"
P_NO_CERT == "no certificate found in PEM data"

\* the loop of Decrypt over the blocks of combinedPEM: every PRIVATE KEY
\* block and every CERTIFICATE block is parsed and assigned
RECURSIVE DecryptLoop(_, _, _)
DecryptLoop(pemData, key, cert) ==
  IF Len(pemData) = 0
    THEN IF key = 0 THEN Loaded(P_NO_KEY, 0, NoCert)
         ELSE IF cert = NoCert THEN Loaded(P_NO_CERT, 0, NoCert)
         ELSE Loaded(L_NONE, key, cert)
  ELSE IF Head(pemData).type = "PRIVATE KEY"
    THEN IF ParsePKCS8AnyKey(Head(pemData).der).ok
           THEN DecryptLoop(Tail(pemData),
                            ParsePKCS8AnyKey(Head(pemData).der).v, cert)
           ELSE Loaded(P_PARSE_KEY, 0, NoCert)
  ELSE IF Head(pemData).type = "CERTIFICATE"
    THEN IF ParseCertificate(Head(pemData).der).ok
           THEN DecryptLoop(Tail(pemData), key,
                            ParseCertificate(Head(pemData).der).v)
           ELSE Loaded(P_PARSE_CERT, 0, NoCert)
  ELSE DecryptLoop(Tail(pemData), key, cert)

\* the outcome of Decrypt from the keys k its loop kept and the outcome r of
\* the decode, parse and decrypt steps that follow
DecryptResult(k, r) ==
  [NoRes EXCEPT !.op = "decrypt",
                !.err = IF k.err # L_NONE THEN k.err ELSE r.err,
                !.detail = IF k.err # L_NONE THEN "" ELSE r.detail,
                !.out = IF k.err # L_NONE THEN NIL ELSE r.out,
                !.priv = k.key,
                !.cert = k.cert]

\* Decrypt(encryptedData, combinedPEM) of the first generation, given the
\* bytes of the bundle and the form value in flight
Decrypt ==
  /\ res.op = "none"
  /\ files.bundle.exists
  /\ res' = DecryptResult(
              DecryptLoop(files.bundle.blocks, 0, NoCert),
              decryptPKCS7(wire.body,
                           DecryptLoop(files.bundle.blocks, 0, NoCert).key,
                           DecryptLoop(files.bundle.blocks, 0, NoCert).cert))
  /\ UNCHANGED << frames, files, client, privKey, jwtCert, fresh, sigs, wraps, seals,
                  envLog, wire >>

InitStore ==
  /\ privKey = 0
  /\ jwtCert = 0
  /\ fresh = 0
  /\ sigs = {}
  /\ wraps = {}
  /\ seals = {}
  /\ envLog = <<>>
  /\ wire = NoMsg
  /\ frames = NoFrames
  /\ res = NoRes
  /\ files \in { [FilesOf(1, 1) EXCEPT !.bundle = b] : b \in Bundles }
  /\ client = NoClient

NextStore ==
  \/ LoadPrivateKeyAndCert
  \/ Decrypt

SpecStore == InitStore /\ [][NextStore]_vars

\* ------------------------------------------------ constructing the client
\* the outcome of NewClient of the last generation from what the three
\* loads gave: the first failure is returned, with no client
NewClientResult(b, j, p) ==
  IF b.err # L_NONE THEN [NoClient EXCEPT !.err = b.err, !.reads = 1]
  ELSE IF j.err # L_NONE THEN [NoClient EXCEPT !.err = j.err, !.reads = 2]
  ELSE IF p.err # L_NONE THEN [NoClient EXCEPT !.err = p.err, !.reads = 3]
  ELSE [made |-> TRUE, err |-> L_NONE, loads |-> TRUE,
        PublicCert |-> b.cert, ServerPKCS7PublicCert |-> p.cert, reads |-> 3]

\* NewClient(cfg) (*Client, error), last generation: the keys are read here
NewClient ==
  /\ ~client.made /\ client.err = L_NONE
  /\ client' = NewClientResult(loadPrivateKeyAndCert(files.bundle),
                               serverPublicCert(files.jwt),
                               serverPublicCert(files.pkcs7))
  /\ privKey' = IF client'.made
                  THEN loadPrivateKeyAndCert(files.bundle).key ELSE 0
  /\ jwtCert' = IF client'.made
                  THEN serverPublicCert(files.jwt).cert.pub ELSE 0
  /\ UNCHANGED << frames, files, fresh, sigs, wraps, seals, envLog, wire, res >>

\* NewClient(cfg) *Client of the generation before: the client keeps the
\* file names and nothing is read
NewClientPaths ==
  /\ ~client.made /\ client.err = L_NONE
  /\ client' = [NoClient EXCEPT !.made = TRUE]
  /\ UNCHANGED << frames, files, privKey, jwtCert, fresh, sigs, wraps, seals, envLog,
                  wire, res >>

\* what the environment may leave in place of a key file
BundleFiles ==
  { AbsentFile, PEMFile(<<>>),
    PEMFile(<< KeyBlockPKCS1(2), CertBlock(2) >>),
    PEMFile(<< KeyBlockMalformed, CertBlock(1) >>),
    PEMFile(<< CertBlock(1), KeyBlockPKCS8(1) >>),
    PEMFile(<< KeyBlockPKCS1(1) >>) }
ServerFiles ==
  { AbsentFile, PEMFile(<<>>), PEMFile(<< CertBlock(1) >>),
    PEMFile(<< CertBlockMalformed >>) }

\* a key file is replaced or removed on disk, once in a run
RewriteFile(name, file) ==
  /\ files.writes = 0
  /\ file # files[name]
  /\ files' = [files EXCEPT ![name] = file, !.writes = 1]
  /\ UNCHANGED << frames, client, privKey, jwtCert, fresh, sigs, wraps, seals, envLog,
                  wire, res >>

InitClient ==
  /\ privKey = 0
  /\ jwtCert = 0
  /\ fresh = 0
  /\ sigs = {}
  /\ wraps = {}
  /\ seals = {}
  /\ envLog = <<>>
  /\ wire = NoMsg
  /\ frames = NoFrames
  /\ res = NoRes
  /\ files = FilesOf(1, 2)
  /\ client = NoClient

NextClient ==
  \/ NewClient
  \/ NewClientPaths
  \/ \E f \in BundleFiles : RewriteFile("bundle", f)
  \/ \E n \in {"jwt", "pkcs7"}, f \in ServerFiles : RewriteFile(n, f)
  \/ \E d \in Plaintexts :
       client.made /\ client.loads /\ fresh = 0 /\ EncryptJWEAndSignJWS(d)
  \/ \E d \in RequestDocs :
       /\ client.made /\ ~client.loads /\ fresh = 0 /\ res.op = "none"
       /\ NewRefundRequestV2(d)

SpecClient == InitClient /\ [][NextClient]_vars

\* ------------------------------------------------------ the secure hash
\* Text here is a sequence of character codes (ASCII; 65533 is U+FFFD).
TXT_EMPTY == <<>>
TXT_Y == << 89 >>
TXT_VERSION == << 57, 46, 52 >>
TXT_AMP == << 38 >>
TXT_CTRL == << 1 >>
TXT_A == << 65 >>
RUNE_FFFD == 65533

\* the decimal digits of a natural number
RECURSIVE Digits(_)
Digits(n) == IF n < 10 THEN << 48 + n >> ELSE Digits(n \div 10) \o << 48 + (n % 10) >>

\* w zeros
Zeros(w) == [i \in 1..w |-> 48]

\* Cents.ZeroPrefixed12DCents: fmt.Sprintf("%012d", c); the sign counts
\* in the width
ZeroPrefixed12DCents(c) ==
  IF c >= 0
    THEN Zeros(IF Len(Digits(c)) < 12 THEN 12 - Len(Digits(c)) ELSE 0)
           \o Digits(c)
    ELSE << 45 >>
           \o Zeros(IF Len(Digits(-c)) < 11 THEN 11 - Len(Digits(-c)) ELSE 0)
           \o Digits(-c)

\* fault variant: the loyalty flag takes the first of the empty places
SignatureFields_WithLoyalty(apiVersion, timestamp, merchantID, invoiceNo, details, encryptedCardInfo) ==
  << apiVersion, timestamp, merchantID, invoiceNo, details.Description,
     ZeroPrefixed12DCents(details.AmountCents), details.CurrencyCode,
     IF details.IsLoyaltyPayment THEN TXT_Y ELSE TXT_EMPTY,
     TXT_EMPTY, TXT_EMPTY,
     details.CountryCode, details.CustomerName,
     TXT_EMPTY, TXT_EMPTY,
     details.UserDefined1, details.UserDefined2, details.UserDefined3,
     details.UserDefined4, details.UserDefined5, details.StoreCard,
     TXT_EMPTY, TXT_EMPTY, TXT_EMPTY, TXT_EMPTY, TXT_EMPTY, TXT_EMPTY,
     TXT_EMPTY, TXT_EMPTY, TXT_EMPTY, TXT_EMPTY, TXT_EMPTY, TXT_EMPTY,
     TXT_Y,
     TXT_EMPTY, TXT_EMPTY, TXT_EMPTY, TXT_EMPTY, TXT_EMPTY, TXT_EMPTY,
     encryptedCardInfo >>

\* the arguments of createSignatureString in the order of its format verbs
SignatureFields(apiVersion, timestamp, merchantID, invoiceNo, details, encryptedCardInfo) ==
  << apiVersion, timestamp, merchantID, invoiceNo, details.Description,
     ZeroPrefixed12DCents(details.AmountCents), details.CurrencyCode,
     TXT_EMPTY, TXT_EMPTY, TXT_EMPTY,
     details.CountryCode, details.CustomerName,
     TXT_EMPTY, TXT_EMPTY,
     details.UserDefined1, details.UserDefined2, details.UserDefined3,
     details.UserDefined4, details.UserDefined5, details.StoreCard,
     TXT_EMPTY, TXT_EMPTY, TXT_EMPTY, TXT_EMPTY, TXT_EMPTY, TXT_EMPTY,
     TXT_EMPTY, TXT_EMPTY, TXT_EMPTY, TXT_EMPTY, TXT_EMPTY, TXT_EMPTY,
     TXT_Y,
     TXT_EMPTY, TXT_EMPTY, TXT_EMPTY, TXT_EMPTY, TXT_EMPTY, TXT_EMPTY,
     encryptedCardInfo >>

\* fmt.Sprintf of "%s" repeated: the arguments one after the other
RECURSIVE SprintfAll(_)
SprintfAll(args) ==
  IF Len(args) = 0 THEN <<>> ELSE Head(args) \o SprintfAll(Tail(args))

\* fault variant: userDefined5 is left out of the string that is hashed
createSignatureString_Without5(apiVersion, timestamp, merchantID, invoiceNo, details, encryptedCardInfo) ==
  SprintfAll(SignatureFields(apiVersion, timestamp, merchantID, invoiceNo,
                             [details EXCEPT !.UserDefined5 = TXT_EMPTY],
                             encryptedCardInfo))

\* fault variant: a separator is written after the merchant id
createSignatureString_Separated(apiVersion, timestamp, merchantID, invoiceNo, details, encryptedCardInfo) ==
  SprintfAll(SignatureFields(apiVersion, timestamp, merchantID \o << 124 >>,
                             invoiceNo, details, encryptedCardInfo))

createSignatureString(apiVersion, timestamp, merchantID, invoiceNo, details, encryptedCardInfo) ==
  SprintfAll(SignatureFields(apiVersion, timestamp, merchantID, invoiceNo,
                             details, encryptedCardInfo))

\* HMAC-SHA1 as an ideal keyed function: the digest determines the key and
\* the data (no two inputs share a digest); the length of the key comes
\* first to keep the two apart
HMACSHA1(key, data) == << Len(key) >> \o key \o data

\* hex.EncodeToString: two lower-case digits per byte, high digit first
HexDigit(d) == IF d < 10 THEN 48 + d ELSE 97 + (d - 10)

HexEncode(b) ==
  [i \in 1..(2 * Len(b)) |->
     IF i % 2 = 1 THEN HexDigit(b[(i + 1) \div 2] \div 16)
                  ELSE HexDigit(b[i \div 2] % 16)]

\* strings.ToUpper
ToUpper(t) == [i \in 1..Len(t) |-> IF t[i] \in 97..122 THEN t[i] - 32 ELSE t[i]]

\* createHMAC(data, key)
createHMAC(data, key) == ToUpper(HexEncode(HMACSHA1(key, data)))

\* xml.EscapeText on element text: markup characters become entities, a
\* character XML does not allow becomes U+FFFD
RECURSIVE EscapeText(_)
EscapeText(t) ==
  IF Len(t) = 0 THEN <<>>
  ELSE (CASE Head(t) = 38 -> << 38, 97, 109, 112, 59 >>
          [] Head(t) = 60 -> << 38, 108, 116, 59 >>
          [] Head(t) < 32 /\ Head(t) \notin {9, 10, 13} -> << RUNE_FFFD >>
          [] OTHER -> << Head(t) >>) \o EscapeText(Tail(t))

\* what an XML reader gives back for element text
RECURSIVE UnescapeText(_)
UnescapeText(t) ==
  IF Len(t) = 0 THEN <<>>
  ELSE IF Len(t) >= 5 /\ SubSeq(t, 1, 5) = << 38, 97, 109, 112, 59 >>
    THEN << 38 >> \o UnescapeText(SubSeq(t, 6, Len(t)))
  ELSE IF Len(t) >= 4 /\ SubSeq(t, 1, 4) = << 38, 108, 116, 59 >>
    THEN << 60 >> \o UnescapeText(SubSeq(t, 5, Len(t)))
  ELSE << Head(t) >> \o UnescapeText(Tail(t))

\* the PaymentRequest value built by CreateSecureFieldsPaymentPayload from
\* its arguments and the hash; a loyalty payment adds the isLoyaltyPayment
\* and loyaltyPayments elements (the redeemed amount and the reward, whose
\* id is what uuid.New returns in this call), left out otherwise
PaymentRequestOf(merchantID, timestamp, invoiceNo, details, encryptedCardInfo, hmacHash, rewardID) ==
  [Version |-> TXT_VERSION,
   TimeStamp |-> timestamp,
   MerchantID |-> merchantID,
   UniqueTransactionCode |-> invoiceNo,
   Description |-> details.Description,
   Amount |-> ZeroPrefixed12DCents(details.AmountCents),
   CurrencyCode |-> details.CurrencyCode,
   PaymentChannel |-> TXT_EMPTY,
   PanCountry |-> details.CountryCode,
   CardholderName |-> details.CustomerName,
   Request3DS |-> TXT_Y,
   SecureHash |-> hmacHash,
   StoreCard |-> details.StoreCard,
   EncCardData |-> encryptedCardInfo,
   UserDefined1 |-> details.UserDefined1,
   UserDefined2 |-> details.UserDefined2,
   UserDefined3 |-> details.UserDefined3,
   UserDefined4 |-> details.UserDefined4,
   UserDefined5 |-> details.UserDefined5,
   IsLoyaltyPayment |-> IF details.IsLoyaltyPayment THEN TXT_Y ELSE TXT_EMPTY,
   LoyaltyRedeemCents |-> IF details.IsLoyaltyPayment
                            THEN ZeroPrefixed12DCents(details.AmountCents)
                            ELSE TXT_EMPTY,
   RewardID |-> IF details.IsLoyaltyPayment THEN rewardID ELSE TXT_EMPTY]

\* xml.Marshal(paymentRequest): the text of every element, escaped
MarshalPaymentRequest(pr) == [f \in DOMAIN pr |-> EscapeText(pr[f])]

\* the value of one element as the receiver of the document reads it
ElementValue(doc, name) == UnescapeText(doc[name])

\* the arguments of one call of CreateSecureFieldsPaymentPayload
DetailFields == {"Description", "CurrencyCode", "CustomerName", "CountryCode",
                 "StoreCard", "UserDefined1", "UserDefined2", "UserDefined3",
                 "UserDefined4", "UserDefined5"}
TextArgs == {"merchantID", "secretKey", "timestamp", "invoiceNo",
             "encryptedCardInfo"}
TextVals == {TXT_EMPTY, TXT_A, TXT_AMP, TXT_CTRL}
AmountVals == {0, 9910, -5}

BaselineCall ==
  [merchantID |-> TXT_A, secretKey |-> TXT_A, timestamp |-> TXT_A,
   invoiceNo |-> TXT_A, encryptedCardInfo |-> TXT_A,
   details |-> [AmountCents |-> 9910, IsLoyaltyPayment |-> FALSE,
                Description |-> TXT_A,
                CurrencyCode |-> TXT_A, CustomerName |-> TXT_A,
                CountryCode |-> TXT_A, StoreCard |-> TXT_Y,
                UserDefined1 |-> TXT_A, UserDefined2 |-> TXT_A,
                UserDefined3 |-> TXT_A, UserDefined4 |-> TXT_A,
                UserDefined5 |-> TXT_A]]

\* the hash of a call's arguments
HashOfCall(in) ==
  createHMAC(createSignatureString(TXT_VERSION, in.timestamp, in.merchantID,
                                   in.invoiceNo, in.details,
                                   in.encryptedCardInfo),
             in.secretKey)

\* the ids uuid.New may return
TXT_U1 == << 117, 49 >>
TXT_U2 == << 117, 50 >>
UUIDs == {TXT_U1, TXT_U2}

\* what one call of CreateSecureFieldsPaymentPayload leaves: res.body keeps
\* the arguments, res.out the marshalled document, res.verifyCalls the
\* number of calls before it
PayloadResult(in, edits, rewardID) ==
  [NoRes EXCEPT
     !.op = "payload",
     !.body = in,
     !.verifyCalls = edits,
     !.out = MarshalPaymentRequest(
               PaymentRequestOf(in.merchantID, in.timestamp, in.invoiceNo,
                                in.details, in.encryptedCardInfo,
                                HashOfCall(in), rewardID))]

\* CreateSecureFieldsPaymentPayload(c2pURL, merchantID, secretKey, timestamp,
\* invoiceNo, paymentDetails, form)
CreateSecureFieldsPaymentPayload(in, edits) ==
  /\ \E id \in (IF in.details.IsLoyaltyPayment THEN UUIDs ELSE {TXT_EMPTY}) :
       res' = PayloadResult(in, edits, id)
  /\ UNCHANGED << frames, files, client, privKey, jwtCert, fresh, sigs, wraps, seals, envLog, wire >>

\* the next call differs from the last in one argument
NextHash ==
  \/ res.op = "none" /\ CreateSecureFieldsPaymentPayload(BaselineCall, 0)
  \/ \E f \in TextArgs, v \in TextVals :
       /\ res.op = "payload" /\ res.verifyCalls < MaxEdits
       /\ v # res.body[f]
       /\ CreateSecureFieldsPaymentPayload([res.body EXCEPT ![f] = v],
                                           res.verifyCalls + 1)
  \/ \E f \in DetailFields, v \in TextVals :
       /\ res.op = "payload" /\ res.verifyCalls < MaxEdits
       /\ v # res.body.details[f]
       /\ CreateSecureFieldsPaymentPayload(
            [res.body EXCEPT !.details[f] = v], res.verifyCalls + 1)
  \/ /\ res.op = "payload" /\ res.verifyCalls < MaxEdits
     /\ CreateSecureFieldsPaymentPayload(
          [res.body EXCEPT !.details.IsLoyaltyPayment = ~@],
          res.verifyCalls + 1)
  \/ \E a \in AmountVals :
       /\ res.op = "payload" /\ res.verifyCalls < MaxEdits
       /\ a # res.body.details.AmountCents
       /\ CreateSecureFieldsPaymentPayload(
            [res.body EXCEPT !.details.AmountCents = a], res.verifyCalls + 1)

\* the hash needs no client: the keys play no part
InitHash == Init /\ privKey = 1 /\ jwtCert = 1

SpecHash == InitHash /\ [][NextHash]_vars

\* -------------------------------------------------- the refund document
\* the UTF-8 bytes of a text: U+FFFD takes three bytes
RECURSIVE UTF8Encode(_)
UTF8Encode(t) ==
  IF Len(t) = 0 THEN <<>>
  ELSE (IF Head(t) = RUNE_FFFD THEN << 239, 191, 189 >> ELSE << Head(t) >>)
         \o UTF8Encode(Tail(t))

RECURSIVE UTF8Decode(_)
UTF8Decode(b) ==
  IF Len(b) = 0 THEN <<>>
  ELSE IF Len(b) >= 3 /\ SubSeq(b, 1, 3) = << 239, 191, 189 >>
    THEN << RUNE_FFFD >> \o UTF8Decode(SubSeq(b, 4, Len(b)))
  ELSE << Head(b) >> \o UTF8Decode(Tail(b))

\* Dollars.String: fmt.Sprintf("%.2f", float64(d.cents)/100), exact for
\* amounts a float64 holds exactly
DollarsString(c) ==
  (IF c < 0 THEN << 45 >> ELSE <<>>)
    \o Digits((IF c < 0 THEN -c ELSE c) \div 100)
    \o << 46, 48 + (((IF c < 0 THEN -c ELSE c) % 100) \div 10),
          48 + ((IF c < 0 THEN -c ELSE c) % 10) >>

\* the elements of a PaymentProcessRequest document, in struct order; one
\* byte stands for the start tag of each (the pointer fields are nil and
\* left out)
RequestElements ==
  << "Version", "MerchantID", "InvoiceNo", "ActionAmount", "ProcessType" >>
TagByte(i) == 200 + i

\* the text of each element as xml.MarshalIndent writes it
RequestTexts(req) ==
  [Version |-> req.Version, MerchantID |-> req.MerchantID,
   InvoiceNo |-> req.InvoiceNo,
   ActionAmount |-> DollarsString(req.ActionAmount),
   ProcessType |-> req.ProcessType]

RECURSIVE MarshalElements(_, _)
MarshalElements(texts, i) ==
  IF i > Len(RequestElements) THEN <<>>
  ELSE << TagByte(i) >> \o UTF8Encode(EscapeText(texts[RequestElements[i]]))
         \o MarshalElements(texts, i + 1)

\* xml.MarshalIndent(req, "", "  ")
MarshalIndentRequest(req) ==
  << CH_LT >> \o MarshalElements(RequestTexts(req), 1)

\* xml.Unmarshal of a document: the text of element i, from its start tag
\* to the next start tag
ElementBytes(doc, i) ==
  IF \A j \in 1..Len(doc) : doc[j] # TagByte(i) THEN <<>>
  ELSE SubSeq(doc,
              (CHOOSE j \in 1..Len(doc) : doc[j] = TagByte(i)) + 1,
              IF \E j \in 1..Len(doc) : doc[j] = TagByte(i + 1)
                THEN (CHOOSE j \in 1..Len(doc) : doc[j] = TagByte(i + 1)) - 1
                ELSE Len(doc))

UnmarshalRequest(doc) ==
  [i \in 1..Len(RequestElements) |->
     UnescapeText(UTF8Decode(ElementBytes(doc, i)))]

\* the requests handed to NewRefundRequest
TXT_R == << 82 >>
TXT_43 == << 52, 46, 51 >>
RefundRequests ==
  [Version : {TXT_43}, MerchantID : {TXT_A, TXT_AMP},
   InvoiceNo : {TXT_A, TXT_AMP, TXT_CTRL},
   ActionAmount : {2500, 5, -5}, ProcessType : {TXT_R}]

\* Client.NewRefundRequest of the last generation: MarshalIndent, then
\* encryptJWEAndSignJWS; the token is the body of a POST with Content-Type
\* text/plain
NewRefundRequestV3(req) == EncryptJWEAndSignJWS(MarshalIndentRequest(req))

\* the counterpart reads a request: it verifies with the client's
\* certificate and decrypts with its own private key
GatewayReadsRequest ==
  /\ wire.kind \in {"v2", "v3"}
  /\ VerifyAndDecryptJWSJWE(privKey, jwtCert)

NextRequest ==
  \/ \E req \in RefundRequests : fresh = 0 /\ NewRefundRequestV3(req)
  \/ \E req \in RefundRequests :
       fresh = 0 /\ NewRefundRequestV2(MarshalIndentRequest(req))
  \/ GatewayReadsRequest

SpecRequest == Init /\ [][NextRequest]_vars

\* ------------------------------------------------------------ void/cancel
V_INVOICE == "invoice number is required"
V_AMOUNT == "action amount must be greater than 0"
V_PROCESS == "failed to process void/cancel request"

TXT_38 == << 51, 46, 56 >>
TXT_V == << 86 >>

\* Client.MerchantID
ClientMerchantID == TXT_A

\* Dollars.ToCents: the cents a Dollars value was made from
ToCents(d) == d

\* fault variant: only a negative amount is refused
ValidateVoidCancel_AllowsZero(req) ==
  IF req.InvoiceNo = TXT_EMPTY THEN V_INVOICE
  ELSE IF ToCents(req.ActionAmount) < 0 THEN V_AMOUNT
  ELSE E_NONE

\* the checks VoidCancel makes before anything else, in their order
ValidateVoidCancel(req) ==
  IF req.InvoiceNo = TXT_EMPTY THEN V_INVOICE
  ELSE IF ToCents(req.ActionAmount) <= 0 THEN V_AMOUNT
  ELSE E_NONE

\* the PaymentProcessRequest VoidCancel builds from a request it accepts
VoidProcessRequest(req) ==
  [Version |-> TXT_38,
   MerchantID |-> IF req.MerchantID = TXT_EMPTY THEN ClientMerchantID
                  ELSE req.MerchantID,
   InvoiceNo |-> req.InvoiceNo,
   ActionAmount |-> req.ActionAmount,
   ProcessType |-> TXT_V]

\* Client.PerformPaymentProcess(ctx, processReq, &resp): the exchange Refund
\* of the last generation makes (NewRefundRequest, send, verify and decrypt
\* the reply, decode it)
PerformPaymentProcess(op, processReq) ==
  /\ SendRequest(JWSHeader(ALG_PS256, KID_ABSENT, TYP_JWT),
                 jwsWithRawPayload(JWSHeader(ALG_PS256, KID_ABSENT, TYP_JWT),
                                   EnvelopeOf(ClientJWEHeader,
                                              MarshalIndentRequest(processReq)),
                                   Fresh(5)),
                 MarshalIndentRequest(processReq))
  /\ res' = [RefundOutcome(op) EXCEPT
               !.body = processReq,
               !.err = IF @ = E_NONE THEN E_NONE ELSE V_PROCESS,
               !.detail = RefundOutcome(op).err]
  /\ wire' = NoMsg

\* Client.VoidCancel(ctx, req): res.body keeps the request of a refused
\* call, the PaymentProcessRequest of an accepted one
VoidCancel(req) ==
  /\ IF ValidateVoidCancel(req) # E_NONE
       THEN /\ res' = [NoRes EXCEPT !.op = "void", !.body = req,
                                    !.err = ValidateVoidCancel(req)]
            /\ UNCHANGED << fresh, sigs, wraps, seals, envLog, wire >>
       ELSE PerformPaymentProcess("void", VoidProcessRequest(req))
  /\ UNCHANGED << frames, files, client, privKey, jwtCert >>

VoidCancelRequests ==
  [InvoiceNo : {TXT_EMPTY, TXT_A}, MerchantID : {TXT_EMPTY, TXT_AMP},
   ActionAmount : {-5, 0, 100}]

\* a reply may be waiting when VoidCancel is called
NextVoid ==
  \/ \E d \in Plaintexts, s \in Keys, r \in Keys :
       fresh = 0 /\ GatewayReply(d, s, r)
  \/ \E req \in VoidCancelRequests :
       fresh <= 5 /\ res.op = "none" /\ VoidCancel(req)

SpecVoid == Init /\ [][NextVoid]_vars

\* ------------------------------------------- calls on one shared client
\* Every call is cut where it reads a field of the client: between two reads
\* the other goroutine may run. What a call computes between its steps
\* (jweToken, jweTokenBytes, decrypted) is a local variable of its own call.

\* fault variant: the intermediate value is kept in one buffer of the client
LocalsOf_Shared(g) == 1

\* the frame that holds the locals of goroutine g's call: its own
LocalsOf(g) == g

\* the second half of verifyJWSAndDecryptJWE: jose.ParseEncrypted on the
\* verified payload, then object.Decrypt(c.PrivateKey)
decryptJWEPayload(payload, priv) ==
  IF ~ParseEncrypted(payload, VerifierKeyAlgs, VerifierEncs).ok
    THEN [err |-> E_PARSE_JWE, out |-> NIL]
  ELSE IF ~DecryptJWE(ParseEncrypted(payload, VerifierKeyAlgs,
                                     VerifierEncs).v, priv).ok
    THEN [err |-> E_DECRYPT_JWE, out |-> NIL]
  ELSE [err |-> E_NONE,
        out |-> DecryptJWE(ParseEncrypted(payload, VerifierKeyAlgs,
                                          VerifierEncs).v, priv).v]

CallOps == {"encrypt", "verify", "backend"}

\* what the callers pass: a document to encrypt, or the message received
\* (or nothing at all) to verify or decrypt
CallInputs(op) ==
  IF op = "encrypt" THEN Plaintexts ELSE {wire.body, <<>>}

AllIdle == \A g \in Goroutines : frames[g].pc = "idle"

\* goroutine g enters a call
Call(g, op, in) ==
  /\ frames[g].pc = "idle"
  /\ frames' = [frames EXCEPT ![g] = [NoFrame EXCEPT !.pc = "first",
                                                      !.op = op, !.in = in]]
  /\ UNCHANGED << files, client, privKey, jwtCert, fresh, sigs, wraps, seals,
                  envLog, wire, res >>

\* goroutine g's call returns r
Returned(g, r) ==
  [frames EXCEPT ![g].pc = "done", ![g].err = r.err, ![g].out = r.out]

\* goroutine g's call goes on to its second half with the local value v
GoesOn(g, v) ==
  [frames EXCEPT ![g].pc = "second", ![LocalsOf(g)].local = v]

\* encryptJWEAndSignJWS, first half: encrypter.Encrypt for
\* c.ServerJWTPublicCert and jwe.CompactSerialize
EncryptStep(g) ==
  /\ frames[g].pc = "first" /\ frames[g].op = "encrypt"
  /\ fresh + 4 <= MaxFresh
  /\ EncryptEffects(ClientJWEHeader, jwtCert, frames[g].in)
  /\ fresh' = fresh + 4
  /\ frames' = GoesOn(g, EnvelopeOf(ClientJWEHeader, frames[g].in))
  /\ UNCHANGED << files, client, privKey, jwtCert, sigs, wire, res >>

SignStepWith(g, st) ==
  /\ sigs' = sigs \cup { SignEntry(ALG_PS256, privKey, st.sstr, Fresh(1)) }
  /\ frames' = Returned(g, [err |-> E_NONE, out |-> st.token])

\* encryptJWEAndSignJWS, second half: jwsWithRawPayload(c.PrivateKey, ...)
SignStep(g) ==
  /\ frames[g].pc = "second" /\ frames[g].op = "encrypt"
  /\ fresh + 1 <= MaxFresh
  /\ SignStepWith(g, jwsWithRawPayload(JWSHeader(ALG_PS256, KID_ABSENT, TYP_JWT),
                                       frames[LocalsOf(g)].local, Fresh(1)))
  /\ fresh' = fresh + 1
  /\ UNCHANGED << files, client, privKey, jwtCert, wraps, seals, envLog, wire,
                  res >>

\* a step of a call that only reads: it returns r if r is an error, and goes
\* on with r.out otherwise
ReadStep(g, r) ==
  /\ frames' = IF r.err # E_NONE THEN Returned(g, [err |-> r.err, out |-> NIL])
               ELSE GoesOn(g, r.out)
  /\ UNCHANGED << files, client, privKey, jwtCert, fresh, sigs, wraps, seals,
                  envLog, wire, res >>

\* the last step of a call that only reads
LastStep(g, r) ==
  /\ frames' = Returned(g, r)
  /\ UNCHANGED << files, client, privKey, jwtCert, fresh, sigs, wraps, seals,
                  envLog, wire, res >>

\* fault variant: the payload is taken from the parsed token, jws.Verify is
\* left out
VerifyStep_Unverified(g) ==
  /\ frames[g].pc = "first" /\ frames[g].op = "verify"
  /\ ReadStep(g, verifyJWS_Unverified(frames[g].in, jwtCert))

\* verifyJWSAndDecryptJWE, first half: jose.ParseSigned and jws.Verify with
\* c.ServerJWTPublicCert
VerifyStep(g) ==
  /\ frames[g].pc = "first" /\ frames[g].op = "verify"
  /\ ReadStep(g, verifyJWS(frames[g].in, jwtCert))

\* verifyJWSAndDecryptJWE, second half
DecryptStep(g) ==
  /\ frames[g].pc = "second" /\ frames[g].op = "verify"
  /\ LastStep(g, decryptJWEPayload(frames[LocalsOf(g)].local, privKey))

\* DecryptPaymentResponseBackend, first half: decryptPKCS7 with
\* c.PrivateKey and c.PublicCert
BackendDecryptStep(g) ==
  /\ frames[g].pc = "first" /\ frames[g].op = "backend"
  /\ ReadStep(g, decryptPKCS7(frames[g].in, privKey, OwnCert))

\* DecryptPaymentResponseBackend, second half: xml.Unmarshal
BackendParseStep(g) ==
  /\ frames[g].pc = "second" /\ frames[g].op = "backend"
  /\ LastStep(g, IF XMLDecode(frames[LocalsOf(g)].local).ok
                   THEN [err |-> E_NONE, out |-> frames[LocalsOf(g)].local]
                   ELSE [err |-> E_XML, out |-> NIL])

\* a message arrives before the calls are made; then the two goroutines
\* make one call each, their steps in any order
NextShared ==
  \/ \E d \in Plaintexts, r \in Keys :
       fresh = 0 /\ AllIdle /\ GatewayReply(d, jwtCert, r)
  \/ \E d \in Plaintexts, c \in Certs :
       fresh = 0 /\ AllIdle /\ GatewayEnvelope(d, << c >>)
  \/ \E g \in Goroutines, op \in CallOps :
       \E in \in CallInputs(op) : Call(g, op, in)
  \/ \E g \in Goroutines : EncryptStep(g)
  \/ \E g \in Goroutines : SignStep(g)
  \/ \E g \in Goroutines : VerifyStep(g)
  \/ \E g \in Goroutines : DecryptStep(g)
  \/ \E g \in Goroutines : BackendDecryptStep(g)
  \/ \E g \in Goroutines : BackendParseStep(g)

SpecShared == Init /\ [][NextShared]_vars

\* one inbound token, signed and encrypted by the gateway with any keys and
\* possibly rewritten in flight, read by one call of verifyJWSAndDecryptJWE
\* step by step, or by Refund
NextOrder ==
  \/ \E d \in Plaintexts, s \in Keys, r \in Keys :
       fresh = 0 /\ GatewayReply(d, s, r)
  \/ \E d \in Plaintexts : fresh = 0 /\ GatewayMapClaims(d)
  \/ \E m \in {"json", "ws", "two", "four", "empty"} :
       frames[1].pc = "idle" /\ Reserialise(m)
  \/ wire.kind # "none" /\ Call(1, "verify", wire.body)
  \/ VerifyStep(1)
  \/ DecryptStep(1)
  \/ \E d \in RequestDocs :
       fresh <= 5 /\ frames[1].pc = "idle" /\ RefundV3(d)

SpecOrder == Init /\ [][NextOrder]_vars

\* ------------------------------------------- the handlers of the example
H_DECRYPT == "Error decrypting payment notification"
H_INQUIRY == "Error inquiring payment"
I_FAILED == "payment inquiry failed"
I_DO == "do request"

\* what PaymentInquiryByInvoice returns to handlePaymentNotification: no
\* error, or an error that names the response code and description the
\* gateway gave, or the failure of the request
InquiryErrors ==
  { <<>>,
    << Lit(I_DO) >>,
    << Lit(I_FAILED), Quoted(<< 50 >>), Quoted(<< 70 >>) >> }

\* http.Error(w, fmt.Sprintf("<text>: %v", err), status)
HTTPError(text, says) ==
  IF says = <<>> THEN <<>> ELSE << Lit(text) >> \o says

\* handlePaymentResponse(w, r, client): the error of
\* DecryptPaymentResponseBackend is sent back; a response that decrypts is
\* rendered as a page
HandlePaymentResponse ==
  /\ wire.kind \in FormKinds
  /\ res' = [BackendParse(decryptPKCS7(wire.body, privKey, OwnCert)) EXCEPT
               !.op = "handlePaymentResponse",
               !.says = HTTPError(H_DECRYPT, @)]
  /\ wire' = NoMsg
  /\ UNCHANGED << frames, files, client, privKey, jwtCert, fresh, sigs, wraps,
                  seals, envLog >>

\* handlePaymentNotification(w, r, client): as above, and after a
\* notification that decrypts the payment is inquired about
HandlePaymentNotification(inquiry) ==
  /\ wire.kind \in FormKinds
  /\ res' = [BackendParse(decryptPKCS7(wire.body, privKey, OwnCert)) EXCEPT
               !.op = "handlePaymentNotification",
               !.says = IF @ # <<>> THEN HTTPError(H_DECRYPT, @)
                        ELSE HTTPError(H_INQUIRY, inquiry)]
  /\ wire' = NoMsg
  /\ UNCHANGED << frames, files, client, privKey, jwtCert, fresh, sigs, wraps,
                  seals, envLog >>

\* one message reaches the client: a token in reply to a request, or a form
\* value posted to a handler
NextErrors ==
  \/ \E d \in Plaintexts, s \in Keys, r \in Keys :
       fresh = 0 /\ GatewayReply(d, s, r)
  \/ \E d \in Plaintexts, sa \in SigAlgs, ka \in KeyAlgs, en \in EncAlgs :
       fresh = 0 /\ GatewayOtherAlg(d, sa, ka, en)
  \/ \E d \in Plaintexts : fresh = 0 /\ GatewayMapClaims(d)
  \/ \E m \in {"json", "ws", "two", "four", "empty"} : Reserialise(m)
  \/ VerifyJWSAndDecryptJWE
  \/ \E d \in RequestDocs : fresh <= 5 /\ RefundV3(d)
  \/ \E d \in Plaintexts, c \in Certs :
       fresh = 0 /\ GatewayEnvelope(d, << c >>)
  \/ \E m \in FormKinds \ {"p7"} : CorruptForm(m)
  \/ DecryptPaymentResponseBackend
  \/ HandlePaymentResponse
  \/ \E e \in InquiryErrors : HandlePaymentNotification(e)

SpecErrors == Init /\ [][NextErrors]_vars

\* --------------------------------- addressing of the legacy decryption
\* the bundle holds the client's key with any certificate, the PKCS7
\* counterpart certificate is any certificate
AddressFiles ==
  { [FilesOf(k, j) EXCEPT
       !.bundle = PEMFile(<< KeyBlockPKCS1(k), CertBlock(c) >>),
       !.pkcs7 = PEMFile(<< CertBlock(p) >>)] :
    k \in StoreKeys, j \in StoreKeys, c \in StoreKeys, p \in StoreKeys }

InitAddress ==
  /\ privKey = 0
  /\ jwtCert = 0
  /\ fresh = 0
  /\ sigs = {}
  /\ wraps = {}
  /\ seals = {}
  /\ envLog = <<>>
  /\ wire = NoMsg
  /\ frames = NoFrames
  /\ res = NoRes
  /\ files \in AddressFiles
  /\ client = NoClient

\* the client is made from the files, a payment response enveloped for any
\* recipients arrives, and DecryptPaymentResponseBackend reads it
NextAddress ==
  \/ NewClient
  \/ \E d \in Plaintexts, rs \in RecipientLists :
       client.made /\ fresh = 0 /\ GatewayEnvelope(d, rs)
  \/ client.made /\ res.op = "none" /\ DecryptPaymentResponseBackend

SpecAddress == InitAddress /\ [][NextAddress]_vars

\* ------------------------------------------ the two response shapes
SecretKey == 1
RC_SUCCESS == << 48 >>
RC_FAILED == << 50 >>
E_DECODE_RESPONSE == "decode response"
E_DECODE_JWT == "decode jwt token"
E_TOKEN_FAILED == "payment token failed"
E_TOKEN_REQUIRED == "payment token is required"
E_INVOICE_REQUIRED == "invoice number is required"

\* a response as the caller gets it; InvoiceNo stands for every field
\* other than the code and its description
ResponseFields == [RespCode : {RC_SUCCESS, RC_FAILED}, RespDesc : {TXT_EMPTY, TXT_A}, InvoiceNo : {TXT_EMPTY, TXT_A}]

\* createJWTToken: header.payload.signature, signed with HMAC-SHA256 under
\* a secret key; a text of two segments is no token
NoResponse == [RespCode |-> TXT_EMPTY, RespDesc |-> TXT_EMPTY, InvoiceNo |-> TXT_EMPTY]
NoToken == [parts |-> 0, signer |-> 0, json |-> FALSE, claims |-> NoResponse]
TokenTexts ==
  [parts : {3}, signer : Keys, json : {TRUE}, claims : ResponseFields]
    \cup { [parts |-> 3, signer |-> SecretKey, json |-> FALSE, claims |-> NoResponse],
           [parts |-> 2, signer |-> SecretKey, json |-> TRUE, claims |-> NoResponse] }

\* decodeJWTToken: three segments, the signature of the first two under
\* the client's secret key, then the claims decoded into the response
decodeJWTToken(token) ==
  IF token.parts # 3 THEN FailWith("invalid token format")
  ELSE IF token.signer # SecretKey THEN FailWith("invalid token")
  ELSE IF ~token.json THEN FailWith("unmarshal payload")
  ELSE Ok(token.claims)

\* the JSON values a body is made of: an object with the fields the two
\* probes read (an absent field and an empty one decode alike), or a text
\* that is no JSON
JSONValues ==
  { [kind |-> "malformed", payload |-> NoToken, respCode |-> TXT_EMPTY, respDesc |-> TXT_EMPTY] }
    \cup [kind : {"object"}, payload : {NoToken}, respCode : {RC_SUCCESS, RC_FAILED}, respDesc : {TXT_EMPTY, TXT_A}]
    \cup [kind : {"object"}, payload : TokenTexts, respCode : {TXT_EMPTY}, respDesc : {TXT_EMPTY}]

\* a response body is a stream of at most two values
ResponseBodies == { <<>> } \cup { << v >> : v \in JSONValues } \cup { << v, w >> : v \in { x \in JSONValues : x.payload = NoToken }, w \in { x \in JSONValues : x.payload = NoToken /\ x.respDesc = TXT_EMPTY } }

\* json.NewDecoder(r).Decode: the next value of the stream; the decoder
\* reads the stream in blocks and keeps what it read beyond the value, so
\* the stream is left after the value or further on
DecoderDecode(stream, ahead) ==
  IF stream = <<>> THEN [ok |-> FALSE, v |-> NIL, rest |-> <<>>]
  ELSE [ok |-> stream[1].kind = "object", v |-> stream[1],
        rest |-> IF ahead THEN <<>> ELSE Tail(stream)]

\* json.Unmarshal: the text is one value and nothing else
Unmarshal(body) ==
  IF Len(body) = 1 /\ body[1].kind = "object" THEN Ok(body[1]) ELSE Fail

DirectResponse(v) ==
  [RespCode |-> v.respCode, RespDesc |-> v.respDesc, InvoiceNo |-> TXT_EMPTY]

InquiryIsSuccess(resp) == resp.RespCode # RC_FAILED

\* the response handling of PaymentInquiryByToken and
\* PaymentInquiryByInvoice: both decoders read the one response body
InquiryResponse(op, body, ahead) ==
  LET first == DecoderDecode(body, ahead)
      second == DecoderDecode(first.rest, ahead)
      token == decodeJWTToken(first.v.payload)
      r == [NoRes EXCEPT !.op = op, !.body = TRUE, !.msg = wire]
  IN IF ~first.ok \/ first.v.payload = NoToken
       THEN IF ~second.ok
              THEN [r EXCEPT !.err = E_DECODE_RESPONSE]
              ELSE [r EXCEPT !.resp = DirectResponse(second.v)]
       ELSE IF ~token.ok
              THEN [r EXCEPT !.err = E_DECODE_JWT, !.detail = token.why]
              ELSE IF InquiryIsSuccess(token.v)
                     THEN [r EXCEPT !.resp = token.v]
                     ELSE [r EXCEPT !.resp = token.v, !.err = I_FAILED]

\* PaymentToken: both probes read the body text that doRequestWithDebug
\* kept
PaymentTokenResponse(body) ==
  LET first == Unmarshal(body)
      token == decodeJWTToken(first.v.payload)
      r == [NoRes EXCEPT !.op = "PaymentToken", !.body = TRUE, !.msg = wire]
  IN IF ~first.ok \/ first.v.payload = NoToken
       THEN IF ~first.ok
              THEN [r EXCEPT !.err = E_DECODE_RESPONSE]
              ELSE [r EXCEPT !.resp = DirectResponse(first.v)]
       ELSE IF ~token.ok
              THEN [r EXCEPT !.err = E_DECODE_JWT, !.detail = token.why]
              ELSE IF token.v.RespCode = RC_SUCCESS
                     THEN [r EXCEPT !.resp = token.v]
                     ELSE [r EXCEPT !.resp = token.v, !.err = E_TOKEN_FAILED]

ShapeOps == {"PaymentInquiryByToken", "PaymentInquiryByInvoice", "PaymentToken"}

\* the gateway's answer to the request the client is about to make
GatewayJSON(body) ==
  /\ wire.kind = "none"
  /\ wire' = [NoMsg EXCEPT !.kind = "json", !.body = body]
  /\ UNCHANGED << privKey, jwtCert, fresh, sigs, wraps, seals, envLog, res, files, client, frames >>

PaymentInquiryByToken(hasToken, ahead) ==
  /\ res' = IF ~hasToken
              THEN [NoRes EXCEPT !.op = "PaymentInquiryByToken", !.body = FALSE, !.err = E_TOKEN_REQUIRED]
              ELSE InquiryResponse("PaymentInquiryByToken", wire.body, ahead)
  /\ UNCHANGED << privKey, jwtCert, fresh, sigs, wraps, seals, envLog, wire, files, client, frames >>

PaymentInquiryByInvoice(hasInvoice, ahead) ==
  /\ res' = IF ~hasInvoice
              THEN [NoRes EXCEPT !.op = "PaymentInquiryByInvoice", !.body = FALSE, !.err = E_INVOICE_REQUIRED]
              ELSE InquiryResponse("PaymentInquiryByInvoice", wire.body, ahead)
  /\ UNCHANGED << privKey, jwtCert, fresh, sigs, wraps, seals, envLog, wire, files, client, frames >>

PaymentToken ==
  /\ res' = PaymentTokenResponse(wire.body)
  /\ UNCHANGED << privKey, jwtCert, fresh, sigs, wraps, seals, envLog, wire, files, client, frames >>

NextShape ==
  \/ \E b \in ResponseBodies : GatewayJSON(b)
  \/ \E t \in BOOLEAN, a \in BOOLEAN :
       wire.kind = "json" /\ res.op = "none" /\ PaymentInquiryByToken(t, a)
  \/ \E i \in BOOLEAN, a \in BOOLEAN :
       wire.kind = "json" /\ res.op = "none" /\ PaymentInquiryByInvoice(i, a)
  \/ wire.kind = "json" /\ res.op = "none" /\ PaymentToken

SpecShape == Init /\ [][NextShape]_vars

\* ------------------------------------------------- one call after another
\* the text arguments in the order createSignatureString writes them: of
\* two neighbours nothing stands between their texts in the string
TopField(name) == [details |-> FALSE, name |-> name]
DetailField(name) == [details |-> TRUE, name |-> name]

NeighbourFields ==
  { << TopField("timestamp"), TopField("merchantID") >>,
    << TopField("merchantID"), TopField("invoiceNo") >>,
    << TopField("invoiceNo"), DetailField("Description") >>,
    << DetailField("CurrencyCode"), DetailField("CountryCode") >>,
    << DetailField("CountryCode"), DetailField("CustomerName") >>,
    << DetailField("CustomerName"), DetailField("UserDefined1") >>,
    << DetailField("UserDefined1"), DetailField("UserDefined2") >>,
    << DetailField("UserDefined4"), DetailField("UserDefined5") >>,
    << DetailField("UserDefined5"), DetailField("StoreCard") >> }

FieldOf(in, f) == IF f.details THEN in.details[f.name] ELSE in[f.name]

WithField(in, f, v) ==
  IF f.details THEN [in EXCEPT !.details[f.name] = v]
  ELSE [in EXCEPT ![f.name] = v]

\* the last character of field f becomes the first of its neighbour g
MovedToNext(in, f, g) ==
  WithField(WithField(in, f, SubSeq(FieldOf(in, f), 1, Len(FieldOf(in, f)) - 1)),
            g, << FieldOf(in, f)[Len(FieldOf(in, f))] >> \o FieldOf(in, g))

\* the first character of field g becomes the last of its neighbour f
MovedToPrevious(in, f, g) ==
  WithField(WithField(in, g, Tail(FieldOf(in, g))),
            f, FieldOf(in, f) \o << Head(FieldOf(in, g)) >>)

\* the call before this one, kept beside the result of this one
LastCall == [NoMsg EXCEPT !.kind = "payload", !.body = res.body, !.raw = res.out]

\* a second call of CreateSecureFieldsPaymentPayload
CreateSecureFieldsPaymentPayloadAgain(in) ==
  /\ res.op = "payload"
  /\ res.verifyCalls < MaxEdits
  /\ \E id \in (IF in.details.IsLoyaltyPayment THEN UUIDs ELSE {TXT_EMPTY}) :
       res' = [PayloadResult(in, res.verifyCalls + 1, id) EXCEPT !.msg = LastCall]
  /\ UNCHANGED << frames, files, client, privKey, jwtCert, fresh, sigs, wraps, seals, envLog, wire >>

\* a first call, then calls that differ from the one before in where a
\* field ends, in the loyalty flag, or in one text
NextPair ==
  \/ \E k \in {TXT_A, TXT_AMP} :
       /\ res.op = "none"
       /\ CreateSecureFieldsPaymentPayload([BaselineCall EXCEPT !.secretKey = k], 0)
  \/ \E p \in NeighbourFields :
       /\ res.op = "payload" /\ FieldOf(res.body, p[1]) # <<>>
       /\ CreateSecureFieldsPaymentPayloadAgain(MovedToNext(res.body, p[1], p[2]))
  \/ \E p \in NeighbourFields :
       /\ res.op = "payload" /\ FieldOf(res.body, p[2]) # <<>>
       /\ CreateSecureFieldsPaymentPayloadAgain(MovedToPrevious(res.body, p[1], p[2]))
  \/ /\ res.op = "payload"
     /\ CreateSecureFieldsPaymentPayloadAgain(
          [res.body EXCEPT !.details.IsLoyaltyPayment = ~@])
  \/ \E f \in TextArgs, v \in TextVals :
       /\ res.op = "payload" /\ v # res.body[f]
       /\ CreateSecureFieldsPaymentPayloadAgain([res.body EXCEPT ![f] = v])

SpecPair == InitHash /\ [][NextPair]_vars

\* ================================================================ claims
VerifyOps == {"verify", "verifyWith"}
RefundOps == {"refund1", "refund2", "refund3"}

\* C1: a token made by encryptJWEAndSignJWS (encrypt to the counterpart's
\* public key, sign with the sender's private key), given to the verifier
\* by a party holding the sender's public key and the private key matching
\* the encryption key, yields exactly the plaintext and no error.
C1_RoundTrip ==
  ( /\ res.op \in VerifyOps
    /\ res.msg.kind \in {"v3", "v2"}
    /\ res.pub = res.msg.signer
    /\ res.priv = res.msg.recip )
  => (res.err = E_NONE /\ res.out = res.msg.pt)

C1_Witness ==
  /\ res.op = "verifyWith"
  /\ res.msg.kind = "v3"
  /\ res.pub = res.msg.signer
  /\ res.priv = res.msg.recip
  /\ res.pub # res.priv
  /\ Len(res.msg.pt) > 0
  /\ res.out = res.msg.pt

\* C2: for every byte string B, the token built by jwsWithRawPayload over B
\* with a private key verifies under the matching public key, and the
\* payload returned is exactly B.
C2_SignVerify ==
  ( /\ res.op = "verifyRaw"
    /\ res.msg.kind = "raw"
    /\ res.msg.orig = NIL
    /\ res.pub = res.msg.signer )
  => (res.err = E_NONE /\ res.out = res.msg.raw)

C2_Witness ==
  /\ res.op = "verifyRaw"
  /\ res.msg.kind = "raw"
  /\ res.msg.orig = NIL
  /\ res.pub = res.msg.signer
  /\ Len(res.msg.raw) = 2
  /\ res.out = res.msg.raw

\* the bytes a verifier reads out of the segments of a compact token
DecodedSegments(body) ==
  LET parts == SplitOn(StripWhitespace(body), CH_DOT) IN
  [k \in 1..Len(parts) |-> B64Dec(parts[k])]

\* C3 as stated: changing any single byte of the payload segment or of the
\* signature segment of a signed token makes verification fail.
C3_AnyMutationRejected ==
  (res.op \in {"verify", "verifyRaw"} /\ res.msg.orig # NIL
     /\ res.pub = res.msg.signer)
  => (res.err # E_NONE /\ res.out = NIL)

\* C3 amended: a single-byte change of the payload or signature segment that
\* changes the bytes decoded from the token (or makes a segment undecodable,
\* or changes the number of segments) makes verification fail.
C3_DecodedMutationRejected ==
  ( /\ res.op \in {"verify", "verifyRaw"}
    /\ res.msg.orig # NIL
    /\ DecodedSegments(res.body) # DecodedSegments(res.msg.orig) )
  => (res.err # E_NONE /\ res.out = NIL)

C3_Witness ==
  /\ res.op = "verify"
  /\ res.msg.orig # NIL
  /\ res.pub = res.msg.signer
  /\ DecodedSegments(res.body) # DecodedSegments(res.msg.orig)
  /\ Len(DecodedSegments(res.body)) = 3
  /\ \A k \in 1..3 : DecodedSegments(res.body)[k].ok
  /\ res.err = E_VERIFY_JWS


\* C4: a failed verification of an inbound message is a hard rejection: the
\* verifier returns an error and no plaintext, and Refund returns an error
\* and no response, after at most one verification attempt.
C4_HardRejection ==
  /\ (res.op \in VerifyOps /\ res.err # E_NONE) => res.out = NIL
  /\ ( /\ res.op \in RefundOps
       /\ verifyAndDecryptJWSJWE(res.body, jwtCert, privKey).err # E_NONE )
     => (res.err # E_NONE /\ res.resp = NIL /\ res.verifyCalls <= 1)

\* C5: the payload segment of every token the client produces is the
\* base64url encoding of exactly the bytes of the Envelope's compact string.
C5_PayloadIsRawEnvelope ==
  wire.kind \in {"v1", "v2", "v3"}
  => SplitOn(wire.body, CH_DOT)[2] = B64Enc(wire.env)

\* C6: a token whose payload is the Envelope wrapped in a JSON claims object
\* is rejected by the verifier: an error and no plaintext.
C6_ClaimsMapRejected ==
  (res.op \in VerifyOps /\ res.msg.kind = "mapclaims")
  => (res.err # E_NONE /\ res.out = NIL)

C6_Witness ==
  /\ res.op = "verify"
  /\ res.msg.kind = "mapclaims"
  /\ Len(res.msg.pt) > 0
  /\ verifyJWS(res.body, jwtCert).err = E_NONE
  /\ res.err = E_PARSE_JWE

\* the algorithms a compact token declares: alg of the signature header,
\* alg and enc of the header of the Envelope it carries
DeclaredAlgs(body) ==
  LET parts == SplitOn(body, CH_DOT)
      inner == SplitOn(B64Dec(parts[2]).v, CH_DOT)
  IN << B64Dec(parts[1]).v[1], B64Dec(inner[1]).v[1], B64Dec(inner[1]).v[2] >>

\* C7: an inbound token is accepted only if it declares PS256, RSA-OAEP and
\* A256GCM; a token declaring any other algorithm is rejected, whatever its
\* signature or ciphertext.
C7_FixedAlgorithms ==
  res.op \in VerifyOps =>
    /\ res.err = E_NONE =>
         DeclaredAlgs(res.body) = << ALG_PS256, ALG_RSA_OAEP, ENC_A256GCM >>
    /\ DeclaredAlgs(res.body) # << ALG_PS256, ALG_RSA_OAEP, ENC_A256GCM >> =>
         (res.err # E_NONE /\ res.out = NIL)

C7_Witness ==
  /\ res.op = "verify"
  /\ res.msg.kind = "alg"
  /\ DeclaredAlgs(res.body) = << ALG_RS256, ALG_RSA_OAEP, ENC_A256GCM >>
  /\ \E e \in sigs : /\ e.alg = ALG_RS256
                     /\ e.key = jwtCert
                     /\ e.msg \o << CH_DOT >> \o B64Enc(e.sig) = res.body
  /\ res.err = E_PARSE_JWS

\* C8 as stated: every input that does not split into exactly 3
\* dot-separated segments is rejected.
C8_ThreeSegmentsOrRejected ==
  (res.op \in VerifyOps /\ Len(SplitOn(res.body, CH_DOT)) # 3)
  => (res.err # E_NONE /\ res.out = NIL)

\* C8 amended: every input that does not begin, whitespace aside, with the
\* opening brace of a JSON serialisation and does not split into exactly 3
\* dot-separated segments is rejected.
C8_CompactNeedsThreeSegments ==
  ( /\ res.op \in VerifyOps
    /\ Len(SplitOn(res.body, CH_DOT)) # 3
    /\ ~ ( /\ Len(StripWhitespace(res.body)) > 0
           /\ StripWhitespace(res.body)[1] = CH_LBRACE ) )
  => (res.err = E_PARSE_JWS /\ res.out = NIL)

C8_Witness ==
  /\ res.op = "verify"
  /\ res.msg.kind = "four"
  /\ verifyAndDecryptJWSJWE(res.msg.orig, jwtCert, privKey).err = E_NONE
  /\ Len(SplitOn(res.body, CH_DOT)) = 4
  /\ res.err = E_PARSE_JWS

AddressedTo(msg, cert) ==
  LET m == { i \in DOMAIN msg.recips : msg.recips[i] = cert } IN
  IF m = {} THEN 0 ELSE CHOOSE i \in m : \A j \in m : i <= j

\* C10: legacy decryption with the certificate of a recipient and the
\* private key that recipient's entry was made for returns exactly the
\* enveloped plaintext; with any other private key it fails, returns no
\* bytes, and fails the same way when the attempt is repeated.
C10_LegacyRoundTrip ==
  [][ (res'.op = "decryptPKCS7" /\ res'.msg.kind = "p7") =>
        LET i == AddressedTo(res'.msg, res'.cert) IN
        /\ (i # 0 /\ res'.priv = res'.msg.recips[i].pub)
             => (res'.err = E_NONE /\ res'.out = res'.msg.pt)
        /\ (i # 0 /\ res'.priv # res'.msg.recips[i].pub)
             => (res'.err = E_DECRYPT /\ res'.out = NIL)
        /\ ( /\ res.op = "decryptPKCS7"
             /\ res.body = res'.body
             /\ res.priv = res'.priv
             /\ res.cert = res'.cert )
             => (res'.err = res.err /\ res'.out = res.out) ]_vars

C10_Witness ==
  /\ res.op = "decryptPKCS7"
  /\ res.msg.kind = "p7"
  /\ Len(res.msg.recips) = 2
  /\ AddressedTo(res.msg, res.cert) = 2
  /\ res.priv = res.msg.recips[2].pub
  /\ res.msg.recips[1].pub # res.priv
  /\ Len(res.msg.pt) > 0
  /\ res.out = res.msg.pt

\* the failure a legacy form value was made to have, seen from outside the
\* decryption: "none" when the call was given what opens it
LegacyFault(r) ==
  CASE r.msg.kind = "badchar" -> "base64"
    [] r.msg.kind \in {"emptyform", "notasn1"} -> "asn1"
    [] r.msg.kind = "signed" -> "content"
    [] r.msg.kind = "p7" ->
         LET m == { i \in DOMAIN r.msg.recips :
                      r.msg.recips[i].serial = r.cert.serial }
         IN IF m = {} THEN "recipient"
            ELSE IF \E i \in m : (\A j \in m : i <= j)
                                  /\ r.msg.recips[i].pub = r.priv
              THEN "none" ELSE "key"

\* the whole text of the error a legacy decryption returned
LegacyErrorText(r) == << r.err, r.detail >>

\* C11: legacy decryption reports malformed base64, malformed ASN.1
\* (an empty form value included), no matching recipient and decryption
\* failure each by an error whose text differs from the texts of the other
\* three, and in every failure case returns no bytes and no parsed response.
C11_DistinctLegacyErrors ==
  res.op \in {"decryptPKCS7", "backend"} =>
    /\ LegacyFault(res) = "base64" =>
         LegacyErrorText(res) = << E_BASE64, D_BASE64 >>
    /\ LegacyFault(res) = "asn1" =>
         (res.err = E_PKCS7 /\ res.detail \in {D_EMPTY, D_ASN1})
    /\ LegacyFault(res) = "recipient" =>
         LegacyErrorText(res) = << E_DECRYPT, D_NO_RECIPIENT >>
    /\ LegacyFault(res) = "key" =>
         LegacyErrorText(res) = << E_DECRYPT, D_RSA >>
    /\ Cardinality({ << E_BASE64, D_BASE64 >>, << E_PKCS7, D_EMPTY >>,
                      << E_PKCS7, D_ASN1 >>, << E_DECRYPT, D_NO_RECIPIENT >>,
                      << E_DECRYPT, D_RSA >> }) = 5
    /\ LegacyFault(res) # "none" => res.err # E_NONE
    /\ res.err # E_NONE => (res.out = NIL /\ res.resp = NIL)

C11_Witness ==
  /\ res.op = "backend"
  /\ LegacyFault(res) = "recipient"
  /\ Len(res.msg.recips) = 2
  /\ LegacyErrorText(res) = << E_DECRYPT, D_NO_RECIPIENT >>
  /\ res.out = NIL

\* the arguments that take part in the hash
HashedArgs(in) == [in EXCEPT !.details.IsLoyaltyPayment = FALSE]

\* C12: the secure hash is determined by the field values and the secret,
\* and a call that differs from the one before in the value of one hashed
\* field gives a different hash.
C12_HashChangesWithAnyField ==
  [][ (res.op = "payload" /\ res'.op = "payload") =>
        /\ (HashedArgs(res'.body) = HashedArgs(res.body))
              => (res'.out.SecureHash = res.out.SecureHash)
        /\ (HashedArgs(res'.body) # HashedArgs(res.body))
              => (res'.out.SecureHash # res.out.SecureHash)
    ]_vars

C12_Witness ==
  /\ res.op = "payload"
  /\ res.verifyCalls = 2
  /\ res.body.details.UserDefined5 = TXT_EMPTY
  /\ res.body.details.UserDefined4 = TXT_AMP
  /\ res.out.SecureHash # <<>>

\* the hashed values in the documented order, read from the elements of a
\* document; the slots the document has no element for are empty
DocumentOrder(d) ==
  ElementValue(d, "Version") \o ElementValue(d, "TimeStamp")
    \o ElementValue(d, "MerchantID")
    \o ElementValue(d, "UniqueTransactionCode")
    \o ElementValue(d, "Description") \o ElementValue(d, "Amount")
    \o ElementValue(d, "CurrencyCode") \o ElementValue(d, "PaymentChannel")
    \o ElementValue(d, "PanCountry") \o ElementValue(d, "CardholderName")
    \o ElementValue(d, "UserDefined1") \o ElementValue(d, "UserDefined2")
    \o ElementValue(d, "UserDefined3") \o ElementValue(d, "UserDefined4")
    \o ElementValue(d, "UserDefined5") \o ElementValue(d, "StoreCard")
    \o ElementValue(d, "Request3DS") \o ElementValue(d, "EncCardData")

\* C13: the secureHash of the outbound PaymentRequest document is the
\* upper-case hex HMAC, keyed by the merchant secret, of the values of the
\* document's own elements concatenated in the documented order, every
\* reserved slot being empty.
C13_HashMatchesDocument ==
  (res.op = "payload") =>
     ElementValue(res.out, "SecureHash")
       = createHMAC(DocumentOrder(res.out), res.body.secretKey)

\* the same for documents whose text XML can carry unchanged
C13_HashMatchesCleanDocument ==
  (res.op = "payload"
     /\ (\A f \in DetailFields : res.body.details[f] # TXT_CTRL)
     /\ (\A g \in TextArgs \ {"secretKey"} : res.body[g] # TXT_CTRL)) =>
     ElementValue(res.out, "SecureHash")
       = createHMAC(DocumentOrder(res.out), res.body.secretKey)

\* the position of the first block whose type line is one of types, 0 if
\* there is none
FirstOfType(blocks, types) ==
  IF \A i \in 1..Len(blocks) : blocks[i].type \notin types THEN 0
  ELSE CHOOSE i \in 1..Len(blocks) :
         /\ blocks[i].type \in types
         /\ \A j \in 1..(i - 1) : blocks[j].type \notin types

KeyTypes == {"RSA PRIVATE KEY", "PRIVATE KEY"}
CertTypes == {"CERTIFICATE"}

\* the bytes of a block are what its type line promises
WellFormed(block) ==
  \/ block.type = "RSA PRIVATE KEY" /\ block.der.kind = "pkcs1"
  \/ block.type = "PRIVATE KEY" /\ block.der.kind = "pkcs8"
  \/ block.type = "CERTIFICATE" /\ block.der.kind = "cert"

FirstKey == FirstOfType(files.bundle.blocks, KeyTypes)
FirstCert == FirstOfType(files.bundle.blocks, CertTypes)

\* the call kept the first private-key block and the first certificate
\* block of the bundle
ReturnsFirstBlocks ==
  /\ res.priv = files.bundle.blocks[FirstKey].der.key
  /\ res.cert.pub = files.bundle.blocks[FirstCert].der.key

\* C14 as stated: the key store returns the first private-key block and the
\* first certificate block, and fails exactly when the bundle holds no
\* private-key block or no certificate block.
C14_FirstBlocksOrNotFound ==
  (res.op \in {"load", "decrypt"} /\ files.bundle.exists) =>
     IF FirstKey = 0 \/ FirstCert = 0
       THEN res.err # L_NONE /\ res.priv = 0 /\ res.cert = NoCert
       ELSE ReturnsFirstBlocks /\ (res.op = "load" => res.err = L_NONE)

\* what loadPrivateKeyAndCert does: it returns the first private-key block
\* and the first certificate block, and fails when the bundle cannot be
\* read, holds no private-key block or no certificate block, or when the
\* first block of either kind does not parse
LoadFirstBlocksWhenWellFormed ==
  (res.op = "load") =>
     IF \/ ~files.bundle.exists
        \/ FirstKey = 0
        \/ FirstCert = 0
        \/ ~WellFormed(files.bundle.blocks[FirstKey])
        \/ ~WellFormed(files.bundle.blocks[FirstCert])
       THEN res.err # L_NONE /\ res.priv = 0 /\ res.cert = NoCert
       ELSE ReturnsFirstBlocks /\ res.err = L_NONE

\* the number of blocks of a bundle whose type line is one of types
CountOfType(blocks, types) ==
  Cardinality({ i \in 1..Len(blocks) : blocks[i].type \in types })

\* C16: loading the identity bundle succeeds only for a bundle with exactly
\* one private-key block and exactly one certificate block.
C16_ExactlyOneOfEach ==
  (res.op = "load" /\ res.err = L_NONE) =>
     /\ CountOfType(files.bundle.blocks, KeyTypes) = 1
     /\ CountOfType(files.bundle.blocks, CertTypes) = 1

\* the three key files load
AllThreeLoad ==
  /\ files.bundle.exists /\ FirstKey # 0 /\ FirstCert # 0
  /\ WellFormed(files.bundle.blocks[FirstKey])
  /\ WellFormed(files.bundle.blocks[FirstCert])
  /\ \A n \in {"jwt", "pkcs7"} :
       /\ files[n].exists /\ Len(files[n].blocks) > 0
       /\ files[n].blocks[1].der.kind = "cert"

\* C15: NewClient returns a Client only when the identity bundle and both
\* counterpart certificates have been loaded; otherwise it returns an error
\* and no Client.
C15_ClientOnlyWithAllThree ==
  [][ (~client.made /\ client' # client) =>
        /\ client'.made => (AllThreeLoad /\ client'.err = L_NONE)
        /\ ~AllThreeLoad => (~client'.made /\ client'.err # L_NONE)
    ]_vars

\* C17: the keys and certificates are loaded once at construction; after
\* that no operation reads the key files and the loaded values stay as they
\* are.
C17_LoadedOnce ==
  [][ client.made =>
        /\ client'.reads = client.reads
        /\ privKey' = privKey /\ jwtCert' = jwtCert
        /\ client'.PublicCert = client.PublicCert
        /\ client'.ServerPKCS7PublicCert = client.ServerPKCS7PublicCert
    ]_vars

\* the elements the counterpart reads equal the fields of the request
ReadsFieldsOf(req, out) ==
  /\ UnmarshalRequest(out)[1] = req.Version
  /\ UnmarshalRequest(out)[2] = req.MerchantID
  /\ UnmarshalRequest(out)[3] = req.InvoiceNo
  /\ UnmarshalRequest(out)[4] = DollarsString(req.ActionAmount)
  /\ UnmarshalRequest(out)[5] = req.ProcessType

\* C19: the body NewRefundRequest builds, once verified with the client's
\* certificate and decrypted with the counterpart's private key, is a
\* document whose version, merchantID, invoiceNo, actionAmount (cents as
\* dollars with two decimals) and processType equal those of the request.
C19_RequestDocumentMatches ==
  (res.op = "verifyWith" /\ res.msg.kind \in {"v2", "v3"}) =>
     /\ res.err = E_NONE
     /\ \A req \in RefundRequests :
          (res.msg.pt = MarshalIndentRequest(req)) => ReadsFieldsOf(req, res.out)

\* the same for requests whose text XML can carry unchanged
C19_CleanRequestDocumentMatches ==
  (res.op = "verifyWith" /\ res.msg.kind \in {"v2", "v3"}) =>
     /\ res.err = E_NONE
     /\ \A req \in RefundRequests :
          (res.msg.pt = MarshalIndentRequest(req) /\ req.InvoiceNo # TXT_CTRL)
            => ReadsFieldsOf(req, res.out)

\* a call of VoidCancel was refused: no response, and nothing was encrypted,
\* signed or sent, nor was a reply read
RefusedBeforeAnything(why) ==
  /\ res'.err = why
  /\ res'.resp = NIL /\ res'.out = NIL
  /\ fresh' = fresh /\ sigs' = sigs /\ wraps' = wraps /\ seals' = seals
  /\ envLog' = envLog /\ wire' = wire

\* C20 as stated: VoidCancel returns 'invoice number is required' when the
\* invoice number is empty, and 'action amount must be greater than 0' when
\* the action amount is zero or negative, each time with no response and
\* before anything is encrypted, signed or sent.
C20_EachRejectionHasItsError ==
  [][ (res.op = "none" /\ res'.op = "void") =>
        /\ (res'.body.InvoiceNo = TXT_EMPTY)
             => RefusedBeforeAnything(V_INVOICE)
        /\ (res'.body.ActionAmount <= 0)
             => RefusedBeforeAnything(V_AMOUNT)
    ]_vars

\* C20: VoidCancel returns 'invoice number is required' when the invoice
\* number is empty, and 'action amount must be greater than 0' when the
\* invoice number is present and the action amount is zero or negative, each
\* time with no response and before anything is encrypted, signed or sent.
C20_RejectedInOrder ==
  [][ (res.op = "none" /\ res'.op = "void") =>
        /\ (res'.body.InvoiceNo = TXT_EMPTY)
             => RefusedBeforeAnything(V_INVOICE)
        /\ (res'.body.InvoiceNo # TXT_EMPTY /\ res'.body.ActionAmount <= 0)
             => RefusedBeforeAnything(V_AMOUNT)
    ]_vars

C20_Witness ==
  /\ res.op = "void"
  /\ res.err = V_AMOUNT
  /\ res.body.InvoiceNo # TXT_EMPTY
  /\ res.body.ActionAmount = 0
  /\ wire.kind = "reply"
  /\ fresh = 5

\* what the call (op, in) returns when it runs alone on the client
ReturnsAsAlone(f) ==
  CASE f.op = "verify" ->
         /\ f.err = verifyAndDecryptJWSJWE(f.in, jwtCert, privKey).err
         /\ f.out = verifyAndDecryptJWSJWE(f.in, jwtCert, privKey).out
    [] f.op = "backend" ->
         /\ f.err = BackendParse(decryptPKCS7(f.in, privKey, OwnCert)).err
         /\ f.out = BackendParse(decryptPKCS7(f.in, privKey, OwnCert)).out
    [] f.op = "encrypt" ->
         /\ f.err = E_NONE
         /\ verifyAndDecryptJWSJWE(f.out, privKey, jwtCert)
              = [err |-> E_NONE, out |-> f.in]

\* a step of one call leaves the client and every other call's frame as
\* they were
WritesOnlyItsOwn ==
  /\ privKey' = privKey /\ jwtCert' = jwtCert
  /\ client' = client /\ files' = files
  /\ \E g \in Goroutines :
       \A h \in Goroutines \ {g} : frames'[h] = frames[h]

\* C18: whatever the order of the steps of the calls made on one client by
\* two goroutines, a call that has returned has returned what it returns
\* alone (for an encrypt call: a token the counterpart reads back as the
\* document passed), and no step writes the client or another call's frame.
C18_CallsDoNotInteract ==
  /\ [](\A g \in Goroutines :
          frames[g].pc = "done" => ReturnsAsAlone(frames[g]))
  /\ [][WritesOnlyItsOwn]_vars

\* both calls have returned after their steps were interleaved: an encrypt
\* call and a verify call that accepted the message
C18_Witness ==
  /\ frames[1].pc = "done" /\ frames[2].pc = "done"
  /\ frames[1].op = "encrypt" /\ frames[2].op = "verify"
  /\ frames[2].err = E_NONE
  /\ fresh = 10

\* C21: when the gateway answers a refund request with a body that is a
\* PaymentProcessResponse XML document, Refund returns no error and the
\* response decoded from that document.
C21_PlainDocumentDecoded ==
  ( /\ res.op \in RefundOps
    /\ res.msg.kind = "plain"
    /\ XMLDecode(res.msg.body).ok )
  => (res.err = E_NONE /\ res.resp = XMLDecode(res.msg.body).v)

\* a segment that base64.RawURLEncoding produced: characters of the
\* alphabet only, no padding, and the encoding of the bytes it decodes to
UnpaddedBase64URL(seg) ==
  /\ \A i \in 1..Len(seg) : seg[i] \in 0..63
  /\ Len(seg) % 4 # 1
  /\ B64Enc(B64Bytes(seg)) = seg

\* the request body on the wire, and the payload it carries, by segments
BodySegments == SplitOn(wire.body, CH_DOT)
CarriedPayload == B64Bytes(BodySegments[2])
CarriedEnvelope ==
  IF Len(CarriedPayload) >= 2 /\ CarriedPayload[1] = CH_QUOTE
    THEN SubSeq(CarriedPayload, 2, Len(CarriedPayload) - 1)
    ELSE CarriedPayload
EnvelopeSegments == SplitOn(CarriedEnvelope, CH_DOT)

\* C22: every request body the client produces has three segments, its
\* header declares alg PS256 and typ JWT, the Envelope it carries has five
\* segments and a header declaring alg RSA-OAEP, enc A256GCM and typ JWE, and
\* every segment of both is unpadded base64url.
C22_RequestBodyShape ==
  wire.kind \in {"v1", "v2", "v3"} =>
    /\ Len(BodySegments) = 3
    /\ \A i \in 1..3 : UnpaddedBase64URL(BodySegments[i])
    /\ B64Bytes(BodySegments[1])[1] = ALG_PS256
    /\ B64Bytes(BodySegments[1])[3] = TYP_JWT
    /\ Len(EnvelopeSegments) = 5
    /\ \A i \in 1..5 : UnpaddedBase64URL(EnvelopeSegments[i])
    /\ B64Bytes(EnvelopeSegments[1])
         = << ALG_RSA_OAEP, ENC_A256GCM, TYP_JWE >>

\* a request body of the last generation that carries a non-empty document
C22_Witness ==
  /\ wire.kind = "v3"
  /\ Len(wire.pt) = MaxPlainLen
  /\ Len(BodySegments) = 3
  /\ CarriedEnvelope = wire.env

\* the errors of the two format stages and of the two cryptographic stages
FormatErrors == {E_PARSE_JWS, E_PARSE_JWE}
CryptoErrors == {E_VERIFY_JWS, E_DECRYPT_JWE}

\* the first of the four stages that fails on a token under the keys given:
\* the token parses as a SignedEnvelope, its signature verifies, its payload
\* parses as an Envelope, the Envelope decrypts
SignedOf(body) == ParseSigned(body, {ALG_PS256})
EnvelopeIn(body, pub) ==
  ParseEncrypted(VerifyJWS(SignedOf(body).v, pub).v, {ALG_RSA_OAEP},
                 {ENC_A256GCM})
FirstFailedStage(body, pub, priv) ==
  IF ~SignedOf(body).ok THEN E_PARSE_JWS
  ELSE IF ~VerifyJWS(SignedOf(body).v, pub).ok THEN E_VERIFY_JWS
  ELSE IF ~EnvelopeIn(body, pub).ok THEN E_PARSE_JWE
  ELSE IF ~DecryptJWE(EnvelopeIn(body, pub).v, priv).ok THEN E_DECRYPT_JWE
  ELSE E_NONE

RawOf(body) ==
  {body} \cup { SplitOn(body, CH_DOT)[i] : i \in 1..Len(SplitOn(body, CH_DOT)) }

CarriedBy(body) ==
  IF Len(SplitOn(body, CH_DOT)) >= 2 /\ B64Dec(SplitOn(body, CH_DOT)[2]).ok
    THEN RawOf(B64Bytes(SplitOn(body, CH_DOT)[2]))
    ELSE {}

Sensitive(r) ==
  (RawOf(r.body) \cup CarriedBy(r.body) \cup { << k >> : k \in Keys })
    \ { <<>> }

\* C24: no error returned by an envelope operation, and no error message a
\* handler sends back to the remote caller, has the private key, the token or
\* form value that was being processed, or the ciphertext in it, among the
\* values its text is made of.
C24_ErrorsQuoteNoSecret ==
  \A i \in 1..Len(res.says) : res.says[i].data \notin Sensitive(res)

\* a handler answered a form value it could not decrypt with the error of
\* the decryption
C24_Witness ==
  /\ res.op = "handlePaymentNotification"
  /\ res.err = E_DECRYPT
  /\ Len(res.says) = 4
  /\ res.says[1] = Lit(H_DECRYPT)

\* the signature of a token verifies under the counterpart's certificate
SignatureVerified(token) ==
  /\ SignedOf(token).ok
  /\ VerifyJWS(SignedOf(token).v, jwtCert).ok

\* C25: a call of verifyJWSAndDecryptJWE reaches its decryption half, and the
\* decryption half runs, only for a token whose signature has verified, and
\* then on the payload that was verified; no call, and no Refund, returns
\* plaintext from a token whose signature does not verify.
C25_DecryptOnlyAfterVerify ==
  /\ [](\A g \in Goroutines :
          (frames[g].op = "verify" /\ frames[g].pc = "second") =>
             /\ SignatureVerified(frames[g].in)
             /\ frames[g].local = SignedOf(frames[g].in).v.payload)
  /\ [](\A g \in Goroutines :
          (frames[g].op = "verify" /\ frames[g].out # NIL) =>
             SignatureVerified(frames[g].in))
  /\ []((res.op = "refund3" /\ res.resp # NIL) => SignatureVerified(res.body))
  /\ [][\A g \in Goroutines :
          ( /\ frames[g].op = "verify"
            /\ frames[g].pc # "done" /\ frames'[g].pc = "done"
            /\ frames'[g].err \in {E_PARSE_JWE, E_DECRYPT_JWE, E_NONE} )
          => (frames[g].pc = "second" /\ SignatureVerified(frames[g].in))
     ]_vars

\* a token signed by a key that is not the counterpart's was refused at the
\* first step, and the call never reached the decryption
C25_Witness ==
  /\ frames[1].op = "verify"
  /\ frames[1].pc = "done"
  /\ frames[1].err = E_VERIFY_JWS
  /\ frames[1].local = NIL
  /\ wire.kind = "reply"
  /\ wire.signer # jwtCert
  /\ wire.recip = privKey

\* C26: DecryptPaymentResponseBackend opens the recipient entry that names
\* the certificate of the client's own bundle, with the client's private
\* key; when no entry names that certificate it fails with 'no enveloped
\* recipient', whatever the private key could open and whatever the PKCS7
\* counterpart certificate is.
C26_AddressedByOwnCertificate ==
  (res.op = "backend" /\ res.msg.kind = "p7") =>
    /\ AddressedTo(res.msg, client.PublicCert) = 0
         => ( /\ res.err = E_DECRYPT /\ res.detail = D_NO_RECIPIENT
              /\ res.out = NIL /\ res.resp = NIL )
    /\ ( /\ AddressedTo(res.msg, client.PublicCert) # 0
         /\ res.msg.recips[AddressedTo(res.msg, client.PublicCert)].pub
              = privKey )
         => ( /\ res.err \in {E_NONE, E_XML}
              /\ res.err = E_NONE => res.out = res.msg.pt )
    /\ ( /\ AddressedTo(res.msg, client.PublicCert) # 0
         /\ res.msg.recips[AddressedTo(res.msg, client.PublicCert)].pub
              # privKey )
         => (res.err = E_DECRYPT /\ res.detail = D_RSA /\ res.out = NIL)

\* no entry names the client's certificate, one entry was made for the
\* client's private key and names the PKCS7 counterpart certificate: refused
C26_Witness ==
  /\ res.op = "backend"
  /\ res.msg.kind = "p7"
  /\ AddressedTo(res.msg, client.PublicCert) = 0
  /\ AddressedTo(res.msg, client.ServerPKCS7PublicCert) # 0
  /\ \E i \in DOMAIN res.msg.recips : res.msg.recips[i].pub = privKey
  /\ res.err = E_DECRYPT

\* C27: which of the two response shapes a body has is decided by whether
\* its object carries a non-empty 'payload' field: with one, the result is
\* what decodeJWTToken makes of the payload; a body that is one object with
\* respCode and respDesc and no payload gives, without error, a response
\* with that respCode and respDesc and nothing else.
C27_ShapeDecidedByPayloadField ==
  (res.op \in ShapeOps /\ res.body = TRUE /\ Len(res.msg.body) = 1
     /\ res.msg.body[1].kind = "object") =>
    /\ res.msg.body[1].payload # NoToken =>
         IF decodeJWTToken(res.msg.body[1].payload).ok
           THEN /\ res.err # E_DECODE_JWT
                /\ res.resp = decodeJWTToken(res.msg.body[1].payload).v
           ELSE res.err = E_DECODE_JWT /\ res.resp = NIL
    /\ res.msg.body[1].payload = NoToken =>
         /\ res.err = E_NONE
         /\ res.resp = [RespCode |-> res.msg.body[1].respCode,
                        RespDesc |-> res.msg.body[1].respDesc,
                        InvoiceNo |-> TXT_EMPTY]

\* the keys whose signature the token carries, and the keys for which the
\* content key of an Envelope was wrapped
SignersOf(body) ==
  { e.key : e \in { x \in sigs : x.msg \o << CH_DOT >> \o B64Enc(x.sig) = body } }

RecipientsOf(env) ==
  { w.pub : w \in { x \in wraps : B64Enc(x.ek) = SplitOn(env, CH_DOT)[2] } }

\* C28: a token the client makes is signed with the client's private key and
\* encrypted to the key of the JWT counterpart certificate; a token the
\* client reads is accepted exactly when it was signed with the key of the
\* JWT counterpart certificate and encrypted to the client's key; so the
\* client accepts a token of its own making exactly when its JWT
\* counterpart certificate is its own.
C28_KeyRolesPerDirection ==
  /\ wire.kind \in {"v3", "v2"} =>
       /\ SignersOf(wire.body) = {privKey}
       /\ RecipientsOf(wire.env) = {jwtCert}
  /\ (res.op = "verify" /\ res.msg.kind \in {"reply", "v3", "v2"}) =>
       ( res.err = E_NONE
           <=> /\ SignersOf(res.body) = {jwtCert}
               /\ RecipientsOf(res.msg.env) = {privKey} )
  /\ (res.op = "verify" /\ res.msg.kind = "v3") =>
       (res.err = E_NONE <=> jwtCert = privKey)

\* the client refuses the token it made itself: its counterpart certificate
\* is another party's
C28_Witness ==
  /\ res.op = "verify"
  /\ res.msg.kind = "v3"
  /\ SignersOf(res.body) = {privKey}
  /\ RecipientsOf(res.msg.env) = {jwtCert}
  /\ jwtCert # privKey
  /\ res.err = E_VERIFY_JWS
  /\ res.out = NIL

\* the string of all fields of a call, one after the other
RECURSIVE Concatenation(_)
Concatenation(fields) ==
  IF fields = <<>> THEN <<>> ELSE Head(fields) \o Concatenation(Tail(fields))

FieldsOfCall(in) ==
  SignatureFields(TXT_VERSION, in.timestamp, in.merchantID, in.invoiceNo,
                  in.details, in.encryptedCardInfo)

\* C29: two calls with the same secret key whose fields, though different,
\* concatenate to the same string get the same secureHash: the places
\* where one field ends and the next begins play no part.
C29_HashOfConcatenationOnly ==
  ( /\ res.op = "payload"
    /\ res.msg.kind = "payload"
    /\ res.body.secretKey = res.msg.body.secretKey
    /\ Concatenation(FieldsOfCall(res.body))
         = Concatenation(FieldsOfCall(res.msg.body)) )
  => ElementValue(res.out, "SecureHash")
       = ElementValue(res.msg.raw, "SecureHash")

\* a character went from the end of merchantID to the start of invoiceNo
C29_Witness ==
  /\ res.op = "payload"
  /\ res.msg.kind = "payload"
  /\ res.msg.body.merchantID = res.body.merchantID \o << 65 >>
  /\ res.body.invoiceNo = << 65 >> \o res.msg.body.invoiceNo
  /\ FieldsOfCall(res.body) # FieldsOfCall(res.msg.body)
  /\ Concatenation(FieldsOfCall(res.body))
       = Concatenation(FieldsOfCall(res.msg.body))
  /\ ElementValue(res.out, "SecureHash")
       = ElementValue(res.msg.raw, "SecureHash")

\* C30: two calls that differ only in IsLoyaltyPayment produce the same
\* secureHash and different documents; the loyalty elements, the reward id
\* among them, are in the document and not in the hash.
C30_HashIgnoresLoyalty ==
  ( /\ res.op = "payload"
    /\ res.msg.kind = "payload"
    /\ res.body.details.IsLoyaltyPayment
         # res.msg.body.details.IsLoyaltyPayment
    /\ [res.body EXCEPT !.details.IsLoyaltyPayment = FALSE]
         = [res.msg.body EXCEPT !.details.IsLoyaltyPayment = FALSE] )
  => /\ ElementValue(res.out, "SecureHash")
          = ElementValue(res.msg.raw, "SecureHash")
     /\ res.out # res.msg.raw
     /\ \A f \in {"IsLoyaltyPayment", "LoyaltyRedeemCents", "RewardID"} :
          res.out[f] # res.msg.raw[f]

C30_Witness ==
  /\ res.op = "payload"
  /\ res.msg.kind = "payload"
  /\ res.body.details.IsLoyaltyPayment
  /\ ~res.msg.body.details.IsLoyaltyPayment
  /\ [res.body EXCEPT !.details.IsLoyaltyPayment = FALSE] = res.msg.body
  /\ res.out["RewardID"] = TXT_U2
  /\ res.msg.raw["RewardID"] = TXT_EMPTY
  /\ ElementValue(res.out, "SecureHash")
       = ElementValue(res.msg.raw, "SecureHash")

====
